---------------------------- MODULE Spec2Model ----------------------------
(***************************************************************************)
(* A model of the local conversation-context manager of Purple-Rain        *)
(* (src/intelligent_context_manager.py): the turn store (table             *)
(* conversation_turns), the bounded working memory (a deque), the user     *)
(* preference store (table user_profiles), the scorer, the tagger, the     *)
(* retention classifier, the summarizer, the context budgeter and the      *)
(* expiry job.                                                             *)
(*                                                                         *)
(* Text is modelled by TLA+ strings, with Python's operations on them      *)
(* computed character by character (lower(), `in`, split, slicing, join).  *)
(* time.time() is the variable now, in whole seconds.                      *)
(***************************************************************************)
EXTENDS Integers, Sequences, FiniteSets, TLC

(***************************************************************************)
(* Python string operations.                                               *)
(***************************************************************************)
Min(a, b) == IF a <= b THEN a ELSE b

Max(a, b) == IF a >= b THEN a ELSE b

\* s[i] of a string, as a one-character string (1-based).
CharAt(s, i) == SubSeq(s, i, i)

\* s[:n] for n >= 0.
Take(s, n) == SubSeq(s, 1, Min(n, Len(s)))

\* s[n:] for n >= 0 (the characters after the first n).
Drop(s, n) == SubSeq(s, n + 1, Len(s))

\* the last n elements of a list: xs[-n:] for n > 0.
LastN(xs, n) == SubSeq(xs, Max(1, Len(xs) - n + 1), Len(xs))

\* sub in s
Contains(s, sub) ==
    \E i \in 1..(Len(s) - Len(sub) + 1) : SubSeq(s, i, i + Len(sub) - 1) = sub

\* c.lower() for one character: the capitals A-Z and those of Latin-1 (all
\* of 0xc0-0xde but the multiplication sign) have a small letter, every other
\* character up to 0xff is kept.
LowerChar(c) ==
    CASE c = "A" -> "a" [] c = "B" -> "b" [] c = "C" -> "c" [] c = "D" -> "d"
      [] c = "E" -> "e" [] c = "F" -> "f" [] c = "G" -> "g" [] c = "H" -> "h"
      [] c = "I" -> "i" [] c = "J" -> "j" [] c = "K" -> "k" [] c = "L" -> "l"
      [] c = "M" -> "m" [] c = "N" -> "n" [] c = "O" -> "o" [] c = "P" -> "p"
      [] c = "Q" -> "q" [] c = "R" -> "r" [] c = "S" -> "s" [] c = "T" -> "t"
      [] c = "U" -> "u" [] c = "V" -> "v" [] c = "W" -> "w" [] c = "X" -> "x"
      [] c = "Y" -> "y" [] c = "Z" -> "z"
      [] c = "À" -> "à" [] c = "Á" -> "á" [] c = "Â" -> "â" [] c = "Ã" -> "ã"
      [] c = "Ä" -> "ä" [] c = "Å" -> "å" [] c = "Æ" -> "æ" [] c = "Ç" -> "ç"
      [] c = "È" -> "è" [] c = "É" -> "é" [] c = "Ê" -> "ê" [] c = "Ë" -> "ë"
      [] c = "Ì" -> "ì" [] c = "Í" -> "í" [] c = "Î" -> "î" [] c = "Ï" -> "ï"
      [] c = "Ð" -> "ð" [] c = "Ñ" -> "ñ" [] c = "Ò" -> "ò" [] c = "Ó" -> "ó"
      [] c = "Ô" -> "ô" [] c = "Õ" -> "õ" [] c = "Ö" -> "ö" [] c = "Ø" -> "ø"
      [] c = "Ù" -> "ù" [] c = "Ú" -> "ú" [] c = "Û" -> "û" [] c = "Ü" -> "ü"
      [] c = "Ý" -> "ý" [] c = "Þ" -> "þ"
      [] OTHER -> c

RECURSIVE Lower(_)
\* s.lower(), computed by halves.
Lower(s) ==
    IF Len(s) = 0 THEN ""
    ELSE IF Len(s) = 1 THEN LowerChar(s)
    ELSE Lower(Take(s, Len(s) \div 2)) \o Lower(Drop(s, Len(s) \div 2))

\* s.split(sep)[0] for a one-character sep: the text before the first sep.
BeforeFirst(s, sep) ==
    IF Contains(s, sep)
    THEN LET i == CHOOSE k \in 1..Len(s) :
                      /\ CharAt(s, k) = sep
                      /\ \A j \in 1..(k - 1) : CharAt(s, j) # sep
         IN  SubSeq(s, 1, i - 1)
    ELSE s

\* the white space at which str.split() with no argument separates: the
\* blank, tab, newline, carriage return, form feed, and (written as the
\* characters themselves) the vertical tab 0x0b, the separators 0x1c-0x1f,
\* the next-line character 0x85 and the no-break space 0xa0.
IsSpace(c) ==
    c \in {" ", "\t", "\n", "\r", "\f", "", "", "", "", "", "", " "}

\* set(s.split()): the maximal runs of characters of s that are not white
\* space.
Words(s) ==
    LET n      == Len(s)
        blank  == { k \in 1..n : IsSpace(CharAt(s, k)) }
        starts == { i \in (1..n) \ blank : i = 1 \/ (i - 1) \in blank }
        end(i) == CHOOSE j \in i..n :
                      /\ (j = n \/ (j + 1) \in blank)
                      /\ \A k \in i..j : k \notin blank
    IN  { SubSeq(s, i, end(i)) : i \in starts }

RECURSIVE Join(_, _)
\* sep.join(parts)
Join(parts, sep) ==
    IF parts = <<>> THEN ""
    ELSE IF Len(parts) = 1 THEN parts[1]
    ELSE parts[1] \o sep \o Join(Tail(parts), sep)

\* any(keyword in text for keyword in keywords)
AnyIn(keywords, text) == \E i \in 1..Len(keywords) : Contains(text, keywords[i])

\* the number of entries of a list that satisfy... (list.count(x))
Count(xs, x) == Cardinality({ i \in 1..Len(xs) : xs[i] = x })


(***************************************************************************)
(* Program constants.                                                      *)
(***************************************************************************)
\* self.max_working_memory: the capacity of the working-memory deque.
max_working_memory == 10

\* the default of self.max_context_chars.
DefaultMaxContextChars == 2000

\* score = 5.0  # Base score
BaseScore == 5

\* one day of time.time(): 24 * 3600 seconds.
DaySeconds == 24 * 3600

important_keywords ==
    << "remember", "important", "goal", "project", "deadline",
       "preference", "like", "dislike", "always", "never",
       "configure", "setup", "error", "problem", "solution" >>

\* tech_keywords, in the dict's insertion order.
tech_keywords ==
    << [topic |-> "programming",
        keywords |-> <<"code", "programming", "python", "javascript", "api">>],
       [topic |-> "ai",
        keywords |-> <<"ai", "artificial intelligence", "machine learning", "model">>],
       [topic |-> "business",
        keywords |-> <<"business", "strategy", "market", "revenue", "profit">>],
       [topic |-> "security",
        keywords |-> <<"security", "authentication", "encryption", "password">>],
       [topic |-> "database",
        keywords |-> <<"database", "sql", "query", "data">>],
       [topic |-> "web",
        keywords |-> <<"web", "html", "css", "frontend", "backend">>],
       [topic |-> "deployment",
        keywords |-> <<"deploy", "server", "production", "hosting">>] >>

\* goal_patterns, in the dict's insertion order.
goal_patterns ==
    << [goal |-> "help_request",
        keywords |-> <<"help", "how to", "can you", "please">>],
       [goal |-> "problem_solving",
        keywords |-> <<"error", "issue", "problem", "fix", "debug">>],
       [goal |-> "information_seeking",
        keywords |-> <<"what is", "explain", "tell me about", "describe">>],
       [goal |-> "task_completion",
        keywords |-> <<"create", "build", "make", "generate", "write">>],
       [goal |-> "configuration",
        keywords |-> <<"setup", "configure", "install", "settings">>],
       [goal |-> "learning",
        keywords |-> <<"learn", "understand", "tutorial", "guide", "example">>] >>

(***************************************************************************)
(* Inputs.  Each exchange is a message and the response to it; the         *)
(* comments give the score, class and tags the code computes for it.       *)
(***************************************************************************)
\* score 4, ephemeral, no tags
XChat == [message |-> "hi", response |-> "ok"]

\* score 6 (the boundary), ephemeral, programming
XBoundary6 == [message |-> "python error in my code here", response |-> "fix it"]

\* score 7, working, programming
XCode == [message |-> "python error in my code here?", response |-> "fix it"]

\* score 8 (the boundary), working, programming
XBoundary8 == [message |-> "is this error a problem in the code?", response |-> "yes"]

\* score 10, long_term, no tags; its first sentence is a key fact
XFact == [message |-> "please remember my project deadline",
          response |-> "Remember the project deadline is an important goal. Noted"]

\* score 10, long_term, programming; its first sentence is a key fact
XFactCode == [message |-> "please remember my python project deadline",
              response |-> "Remember the project deadline is an important goal. Noted"]

\* score 8, working, security; its first sentence is a key point of summaries
XSecret == [message |-> "remember my password is important",
            response |-> "The password of the security project is hunter2. Noted"]

\* goal help_request, topic programming, shares words with XFact's fact
QAll == "help with the python deadline tone"

\* no goal keyword, no topic
QNone == "hello"

\* no goal keyword, no topic, shares a word with XFact's fact
QFacts == "the tone"

\* no goal keyword, topic programming
QTopic == "python tone"

Queries == {QAll, QNone, QFacts, QTopic}

\* score 10, long_term, no tags; its fact shares no word with XFact's
XAdvice == [message |-> "remember this important preference always",
            response |-> "Never dislike a solution without setup. Done"]

\* score 10, long_term, no tags; its first sentence has 18 characters
XShortFact == [message |-> "please remember my setup problem",
               response |-> "Important deadline. Remember the project goal and never the error"]

\* no goal keyword, no topic; shares a word with the first sentences of
\* XFact, XSecret and XShortFact, in another case
QProject == "Project DEADLINE"

\* no goal keyword, no topic; shares a word with XAdvice's fact only; its
\* two words are separated by a tab
QSolution == "a\tsolution"

FactQueries == {QProject, QSolution}

\* messages for the goal: keywords of two goals at once, in upper case, of
\* each goal, and of none
GoalQueries ==
    { "Please FIX the error", "debug this issue", "Explain and write it",
      "make a build", "install the settings guide", "a tutorial", QNone, "show me" }

AllQueries == Queries \cup FactQueries \cup GoalQueries

Exchanges ==
    {XChat, XBoundary6, XCode, XBoundary8, XFact, XFactCode, XSecret, XAdvice, XShortFact}

Double(s) == s \o s

\* a preference value longer than the default budget (2048 characters)
LongValue == Double(Double(Double(Double(Double(Double(Double(Double(Double(Double(Double("v")))))))))))

PrefsShort == << [key |-> "Tone", value |-> "formal"] >>

PrefsTwo == << [key |-> "lang", value |-> "en"], [key |-> "deadline", value |-> "soon"] >>

PrefsLong == << [key |-> "Tone", value |-> LongValue], [key |-> "lang", value |-> "en"] >>

RECURSIVE Repeat(_, _)
\* s * n, computed by halves.
Repeat(s, n) ==
    IF n <= 0 THEN ""
    ELSE IF n = 1 THEN s
    ELSE Repeat(s, n \div 2) \o Repeat(s, n - n \div 2)

\* every keyword of important_keywords, and a question mark
AllKeywordsQuestion ==
    "remember important goal project deadline preference like dislike "
        \o "always never configure setup error problem solution?"

\* six keywords in 46 characters
SixKeywords == "always never project problem solution deadline"

\* messages for the scorer: lengths 0, 19 and 20, with and without a question
\* mark, keywords in upper case, repeated, and one inside another
ScoreMessages ==
    { "", "hi", "why?", Repeat("z", 19), Repeat("z", 20), "like goal setup",
      "REMEMBER the GOAL?", "dislike", "error error error",
      "an Error? a PROBLEM?", AllKeywordsQuestion, "python error in my code here" }

\* responses for the scorer: lengths 0, 49, 50, 500 and 501, with keywords
ScoreResponses ==
    { "", "ok", Repeat("z", 49), Repeat("z", 50), Repeat("z", 500),
      Repeat("z", 501), SixKeywords, "Important. Noted",
      AllKeywordsQuestion \o Repeat(" z", 250),
      "Remember the project deadline is an important goal. Noted" }

ScoreInputs == { [message |-> m, response |-> r] : m \in ScoreMessages, r \in ScoreResponses }

\* the shortest exchange, nine keywords in a very short exchange, and every
\* keyword with a question and a long response
XEmpty == [message |-> "", response |-> ""]

XShortNine == [message |-> "like goal setup", response |-> SixKeywords]

XEverything == [message |-> AllKeywordsQuestion,
                response |-> AllKeywordsQuestion \o Repeat(" z", 250)]

ScoreExtremes == {XEmpty, XShortNine, XEverything}

(***************************************************************************)
(* Tables.  The functions of text below are applied to the same few texts  *)
(* in every state; a table holds a function's values on the texts of the   *)
(* model, computed once.  F_of(x) is F(x), read from the table of F where  *)
(* x is one of these texts and computed otherwise.                         *)
(***************************************************************************)
TableOf(keys, F(_)) == { <<k, F(k)>> : k \in keys }

InTable(table, k) == \E p \in table : p[1] = k

Lookup(table, k) == (CHOOSE p \in table : p[1] = k)[2]

(***************************************************************************)
(* Scorer and tagger.  Scores are 5.0 plus or minus whole numbers, so the  *)
(* float importance_score is modelled by an integer.                       *)
(***************************************************************************)
\* the score without the final clamp
calculate_importance_score_unclamped(message, response) ==
    LET text  == Lower(message \o " " \o response)
        hits  == Cardinality({ i \in 1..Len(important_keywords) :
                                 Contains(text, important_keywords[i]) })
        quest == IF Contains(message, "?") THEN 1 ELSE 0
        long  == IF Len(response) > 500 THEN 1 ELSE 0
        short == IF Len(message) < 20 /\ Len(response) < 50 THEN 1 ELSE 0
    IN  BaseScore + hits + quest + long - short

\* the score with the clamp applied before the subtraction for short exchanges
calculate_importance_score_clamped_early(message, response) ==
    LET text  == Lower(message \o " " \o response)
        hits  == Cardinality({ i \in 1..Len(important_keywords) :
                                 Contains(text, important_keywords[i]) })
        quest == IF Contains(message, "?") THEN 1 ELSE 0
        long  == IF Len(response) > 500 THEN 1 ELSE 0
        short == IF Len(message) < 20 /\ Len(response) < 50 THEN 1 ELSE 0
    IN  Min(Max(BaseScore + hits + quest + long, 1), 10) - short

calculate_importance_score(message, response) ==
    LET text  == Lower(message \o " " \o response)
        hits  == Cardinality({ i \in 1..Len(important_keywords) :
                                 Contains(text, important_keywords[i]) })
        quest == IF Contains(message, "?") THEN 1 ELSE 0
        long  == IF Len(response) > 500 THEN 1 ELSE 0
        short == IF Len(message) < 20 /\ Len(response) < 50 THEN 1 ELSE 0
        score == BaseScore + hits + quest + long - short
    IN  Min(Max(score, 1), 10)

extract_topic_tags(message, response) ==
    LET text == Lower(message \o " " \o response)
        hit  == SelectSeq(tech_keywords, LAMBDA e : AnyIn(e.keywords, text))
    IN  [i \in 1..Len(hit) |-> hit[i].topic]

ScoreTable ==
    TableOf(Exchanges \cup ScoreInputs,
            LAMBDA x : calculate_importance_score(x.message, x.response))

importance_score_of(message, response) ==
    LET x == [message |-> message, response |-> response]
    IN  IF InTable(ScoreTable, x) THEN Lookup(ScoreTable, x)
        ELSE calculate_importance_score(message, response)

TagsTable ==
    TableOf(Exchanges \cup ScoreExtremes, LAMBDA x : extract_topic_tags(x.message, x.response))

topic_tags_of(message, response) ==
    LET x == [message |-> message, response |-> response]
    IN  IF InTable(TagsTable, x) THEN Lookup(TagsTable, x)
        ELSE extract_topic_tags(message, response)

\* extract_topic_tags(current_message, "")
MessageTagsTable == TableOf(AllQueries, LAMBDA q : extract_topic_tags(q, ""))

message_tags_of(current_message) ==
    IF InTable(MessageTagsTable, current_message)
    THEN Lookup(MessageTagsTable, current_message)
    ELSE extract_topic_tags(current_message, "")

LowerTable == TableOf(AllQueries, Lower)

lower_of(text) == IF InTable(LowerTable, text) THEN Lookup(LowerTable, text) ELSE Lower(text)

(***************************************************************************)
(* Retention classifier (store_conversation_turn, lines 192-198).          *)
(***************************************************************************)
\* memory_type_of with the thresholds taken as inclusive.
memory_type_of_inclusive(importance_score) ==
    IF importance_score >= 8 THEN "long_term"
    ELSE IF importance_score >= 6 THEN "working"
    ELSE "ephemeral"

memory_type_of(importance_score) ==
    IF importance_score > 8 THEN "long_term"
    ELSE IF importance_score > 6 THEN "working"
    ELSE "ephemeral"

(***************************************************************************)
(* Summarizer.  max(set(recent_tags), key=recent_tags.count) returns the   *)
(* first tag of highest count in the iteration order of a Python set of    *)
(* strings, which depends on the process's string hashing: any tag of      *)
(* highest count can be the result.  The operator yields the set of the    *)
(* summaries the call can return.                                          *)
(***************************************************************************)
RECURSIVE FlattenTags(_)
\* recent_tags after the loop of extend() calls.
FlattenTags(turns) ==
    IF turns = <<>> THEN <<>>
    ELSE Head(turns).topic_tags \o FlattenTags(Tail(turns))

\* the candidates for current_topic.
current_topic_candidates(recent_turns) ==
    LET recent_tags == FlattenTags(LastN(recent_turns, 3))
        tagset      == { recent_tags[i] : i \in 1..Len(recent_tags) }
    IN  IF recent_tags = <<>> THEN {"general"}
        ELSE { t \in tagset : \A o \in tagset : Count(recent_tags, o) <= Count(recent_tags, t) }

\* response.split('.')[0][:100]
first_sentence(response) == Take(BeforeFirst(response, "."), 100)

FirstSentenceTable == TableOf({ x.response : x \in Exchanges }, first_sentence)

first_sentence_of(response) ==
    IF InTable(FirstSentenceTable, response) THEN Lookup(FirstSentenceTable, response)
    ELSE first_sentence(response)

summary_key_points(recent_turns) ==
    LET high == SelectSeq(recent_turns,
                    LAMBDA t : /\ t.importance_score > 7
                               /\ Len(first_sentence_of(t.response)) > 20)
    IN  [i \in 1..Len(high) |-> first_sentence_of(high[i].response)]

generate_context_summary(user_id, recent_turns) ==
    IF recent_turns = <<>> THEN {"New conversation"}
    ELSE LET key_points == summary_key_points(recent_turns)
         IN  { Take(Join(<<"Topic: " \o topic>> \o
                         (IF key_points # <<>>
                          THEN <<"Key points: " \o Join(Take(key_points, 3), "; ")>>
                          ELSE <<>>), " | "), 500)
               : topic \in current_topic_candidates(recent_turns) }

(***************************************************************************)
(* Context selection.  The operators take the state they read as           *)
(* parameters: wm is the working memory (oldest first), db the rows of     *)
(* conversation_turns in rowid order, profiles the user_profiles table.    *)
(***************************************************************************)
\* the value of user_profiles.preferences where a user has no row.
NoProfile == "none"

RECURSIVE OrderByTimestampDesc(_)
\* ORDER BY timestamp DESC (rows of equal timestamp in rowid order).
OrderByTimestampDesc(rows) ==
    IF rows = <<>> THEN <<>>
    ELSE LET i == CHOOSE k \in 1..Len(rows) :
                      /\ \A j \in 1..Len(rows) : rows[j].timestamp <= rows[k].timestamp
                      /\ \A j \in 1..(k - 1) : rows[j].timestamp < rows[k].timestamp
         IN  <<rows[i]>> \o
             OrderByTimestampDesc(SubSeq(rows, 1, i - 1) \o SubSeq(rows, i + 1, Len(rows)))

\* important_history without the test of the row's user.
important_history_any_user(db, user_id) ==
    Take(OrderByTimestampDesc(
             SelectSeq(db, LAMBDA row : /\ row.importance_score > 7
                                        /\ row.memory_type \in {"working", "long_term"})),
         5)

\* the SELECT of get_relevant_context.
important_history(db, user_id) ==
    Take(OrderByTimestampDesc(
             SelectSeq(db, LAMBDA row : /\ row.user_id = user_id
                                        /\ row.importance_score > 7
                                        /\ row.memory_type \in {"working", "long_term"})),
         5)

\* hist[1][:100].split('.')[0]
history_fact(response) == BeforeFirst(Take(response, 100), ".")

HistoryFactTable == TableOf({ x.response : x \in Exchanges }, history_fact)

history_fact_of(response) ==
    IF InTable(HistoryFactTable, response) THEN Lookup(HistoryFactTable, response)
    ELSE history_fact(response)

\* json.loads of the stored preferences: the dict's items in order.
get_user_preferences(profiles, user_id) ==
    IF profiles[user_id] = NoProfile THEN <<>> ELSE profiles[user_id]

\* keyword_goal taking the last goal that matches instead of the first.
keyword_goal_last_match(current_message) ==
    LET message_lower == Lower(current_message)
        matching == SelectSeq(goal_patterns, LAMBDA e : AnyIn(e.keywords, message_lower))
    IN  IF matching # <<>> THEN matching[Len(matching)].goal ELSE ""

\* the first goal one of whose keywords is in the lowered message ("" if none).
keyword_goal(current_message) ==
    LET message_lower == Lower(current_message)
        matching == SelectSeq(goal_patterns, LAMBDA e : AnyIn(e.keywords, message_lower))
    IN  IF matching # <<>> THEN matching[1].goal ELSE ""

KeywordGoalTable == TableOf(AllQueries, keyword_goal)

keyword_goal_of(current_message) ==
    IF InTable(KeywordGoalTable, current_message)
    THEN Lookup(KeywordGoalTable, current_message)
    ELSE keyword_goal(current_message)

infer_conversation_goal(current_message, recent_turns) ==
    LET by_keyword == keyword_goal_of(current_message)
    IN  IF by_keyword # "" THEN by_keyword
        ELSE IF /\ recent_turns # <<>>
                /\ LET tags == recent_turns[Len(recent_turns)].topic_tags
                   IN  \E i \in 1..Len(tags) : tags[i] \in {"programming", "code"}
             THEN "programming_assistance"
             ELSE "general_conversation"

\* f"User: {turn.message[:50]}... | AI: {turn.response[:50]}..."
recent_context_part(turn) ==
    "User: " \o Take(turn.message, 50) \o "... | AI: " \o Take(turn.response, 50) \o "..."

\* recent_turns_of without the test of the turn's user.
recent_turns_of_any_user(wm, user_id) == wm

\* line 239: the turns of the working memory that belong to the user.
recent_turns_of(wm, user_id) == SelectSeq(wm, LAMBDA turn : turn.user_id = user_id)

\* lines 255-289: the ContextSummary built from the locals recent_turns
\* (line 239), important_history (line 252) and user_prefs (line 268).
context_summary_of(recent_turns, history, user_prefs, current_message) ==
    LET current_tags == message_tags_of(current_message)
        very         == SelectSeq(history,
                            LAMBDA hist : /\ hist.importance_score > 8
                                          /\ Len(history_fact_of(hist.response)) > 20)
        key_facts    == [i \in 1..Len(very) |-> history_fact_of(very[i].response)]
        shown        == SelectSeq(LastN(recent_turns, 2),
                            LAMBDA turn : turn.importance_score > 6)
        recent_parts == [i \in 1..Len(shown) |-> recent_context_part(shown[i])]
    IN  [ current_topic     |-> IF current_tags # <<>> THEN current_tags[1] ELSE "general",
          key_facts         |-> Take(key_facts, 3),
          user_preferences  |-> user_prefs,
          recent_context    |-> Take(Join(recent_parts, " || "), 500),
          conversation_goal |-> infer_conversation_goal(current_message, recent_turns) ]

\* get_relevant_context run as one step.
get_relevant_context(wm, db, profiles, user_id, current_message) ==
    context_summary_of(recent_turns_of(wm, user_id), important_history(db, user_id),
                       get_user_preferences(profiles, user_id), current_message)

(***************************************************************************)
(* Context budgeter.                                                       *)
(***************************************************************************)
\* the facts of the summary that share a word with the current message.
\* set(text.lower().split())
lower_words(text) == Words(Lower(text))

LowerWordsTable ==
    TableOf(AllQueries \cup { history_fact(x.response) : x \in Exchanges }, lower_words)

lower_words_of(text) ==
    IF InTable(LowerWordsTable, text) THEN Lookup(LowerWordsTable, text)
    ELSE lower_words(text)

relevant_facts(key_facts, current_message) ==
    LET message_words == lower_words_of(current_message)
    IN  SelectSeq(key_facts,
            LAMBDA fact : lower_words_of(fact) \cap message_words # {})

\* the preferences whose key occurs in the current message, as "key: value".
relevant_prefs(user_preferences, current_message) ==
    LET message_lower == lower_of(current_message)
        hit == SelectSeq(user_preferences,
                   LAMBDA kv : Contains(message_lower, Lower(kv.key)))
    IN  [i \in 1..Len(hit) |-> hit[i].key \o ": " \o hit[i].value]

\* context_parts as prepare_ai_context builds it from a ContextSummary.
context_parts(context_summary, current_message) ==
    LET facts == relevant_facts(context_summary.key_facts, current_message)
        prefs == relevant_prefs(context_summary.user_preferences, current_message)
    IN  (IF context_summary.conversation_goal # "general_conversation"
         THEN <<"Goal: " \o context_summary.conversation_goal>> ELSE <<>>)
        \o
        (IF context_summary.current_topic # "general"
         THEN <<"Topic: " \o context_summary.current_topic>> ELSE <<>>)
        \o
        (IF facts # <<>>
         THEN <<"Context: " \o Join(Take(facts, 2), "; ")>> ELSE <<>>)
        \o
        (IF prefs # <<>>
         THEN <<"Preferences: " \o Join(Take(prefs, 2), "; ")>> ELSE <<>>)

\* budgeted without the final cut to max_chars.
budgeted_uncut(parts, max_chars) ==
    LET full_context == Join(parts, " | ")
    IN  IF Len(full_context) > max_chars
        THEN (IF parts # <<>> THEN parts[1] ELSE "")
        ELSE full_context

\* budgeted keeping the first two parts on overflow.
budgeted_two_parts(parts, max_chars) ==
    LET full_context == Join(parts, " | ")
    IN  IF Len(full_context) > max_chars
        THEN Take(Join(Take(parts, 2), " | "), max_chars)
        ELSE full_context

\* budgeted keeping the last part on overflow.
budgeted_last_part(parts, max_chars) ==
    LET full_context == Join(parts, " | ")
    IN  IF Len(full_context) > max_chars
        THEN Take(IF parts # <<>> THEN parts[Len(parts)] ELSE "", max_chars)
        ELSE full_context

\* lines 383-391: the join and the truncation to the first part.
budgeted(parts, max_chars) ==
    LET full_context == Join(parts, " | ")
    IN  IF Len(full_context) > max_chars
        THEN Take(IF parts # <<>> THEN parts[1] ELSE "", max_chars)
        ELSE full_context

prepare_ai_context(wm, db, profiles, max_chars, user_id, current_message) ==
    budgeted(context_parts(get_relevant_context(wm, db, profiles, user_id, current_message),
                           current_message),
             max_chars)

(***************************************************************************)
(* Expiry (cleanup_old_data).                                              *)
(***************************************************************************)
\* expired_ephemeral without the test of the memory type.
expired_ephemeral_any_type(row, cutoff_time) == row.timestamp < cutoff_time

\* expired_ephemeral with the cutoff itself taken as expired.
expired_ephemeral_at_cutoff(row, cutoff_time) ==
    row.timestamp <= cutoff_time /\ row.memory_type = "ephemeral"

\* the first DELETE: ephemeral rows older than the cutoff.
expired_ephemeral(row, cutoff_time) ==
    row.timestamp < cutoff_time /\ row.memory_type = "ephemeral"

\* expired_working without the test of the score.
expired_working_any_score(row, working_cutoff) ==
    row.timestamp < working_cutoff /\ row.memory_type = "working"

\* the second DELETE: weak working rows older than seven days.
expired_working(row, working_cutoff) ==
    /\ row.timestamp < working_cutoff
    /\ row.memory_type = "working"
    /\ row.importance_score < 6

(***************************************************************************)
(* State.                                                                  *)
(***************************************************************************)
VARIABLES
    working_memory,     \* self.working_memory: deque(maxlen=10) of turns, oldest first
    db_turns,           \* table conversation_turns: its rows, in rowid order
    last_id,            \* the AUTOINCREMENT counter of conversation_turns
    user_profiles,      \* table user_profiles: user_id -> preferences (or NoProfile)
    now,                \* time.time(), in seconds
    max_context_chars,  \* self.max_context_chars
    ret,                \* the last call and the value it returned
    solo,               \* a second manager, which receives only the calls that
                        \* concern user Observed (used to compare two runs)
    requests            \* per thread of the application: the position and
                        \* the locals of the call it is in the middle of

vars == << working_memory, db_turns, last_id, user_profiles, now,
           max_context_chars, ret, solo, requests >>

\* the threads that serve requests
Threads == {"t1", "t2"}

\* the thread that serves the first request
FirstThread == "t1"

\* the locals of a thread that is in no call
NoTurn == [user_id |-> "none"]

Idle ==
    [ pc |-> "idle", user_id |-> "none", current_message |-> "", message |-> "",
      response |-> "", timestamp |-> 0, turn |-> NoTurn, recent_turns |-> <<>>,
      index |-> 0, mutated |-> FALSE, important_history |-> <<>>, stats |-> "none",
      days_to_keep |-> 0, cutoff_time |-> 0, working_cutoff |-> 0, uncommitted |-> <<>>,
      preferences |-> <<>>, shared |-> FALSE ]

\* the connection a call left open when its commit raised: no call closes
\* its connection on an exception, and the connection lives until the
\* interpreter's garbage collector finalises it
Abandoned == "abandoned"

Connections == Threads \cup {Abandoned}

\* connection c holds the write lock of the database file: it has run an
\* INSERT (lines 216-224), an INSERT OR REPLACE (lines 311-314) or a DELETE
\* (lines 401-404) and has not committed (lines 225, 315, 413), or its
\* commit has failed and it has not been closed
HoldsReserved(c) ==
    requests[c].pc \in {"commit", "update_commit", "cleanup_cutoff", "cleanup_working",
                        "pending"}

\* a statement of thread t that writes cannot get the write lock: another
\* connection holds it.  The statement waits for the timeout of
\* sqlite3.connect (5 seconds by default) and raises
\* sqlite3.OperationalError.
WriteLocked(t) == \E c \in Connections \ {t} : HoldsReserved(c)

\* a commit of thread t cannot write the database file: the connection of
\* another thread holds a shared lock, which a SELECT keeps from its execute
\* to the fetch of its last row (the SELECT of no row keeps none).
ReadLocked(t) == \E c \in Threads \ {t} : requests[c].shared

\* no SELECT can take its shared lock: a connection whose commit failed
\* still waits to write the file
PendingLocked == requests[Abandoned].pc = "pending"

Users == {"alice", "bob"}

\* the user whose view the two-run comparison observes.
Observed == "alice"

(***************************************************************************)
(* store_conversation_turn.                                                *)
(***************************************************************************)
\* the decimal digits of the natural number n
RECURSIVE digits_of(_)
digits_of(n) ==
    IF n < 10
    THEN SubSeq("0123456789", n + 1, n + 1)
    ELSE digits_of(n \div 10) \o SubSeq("0123456789", (n % 10) + 1, (n % 10) + 1)

\* str(timestamp) of a float that holds a whole number of seconds: its
\* digits and ".0" (0.0 is "0.0", 10.0 is "10.0"); the clock of the model
\* stays below 10^16, from where str would write an exponent
float_str(timestamp) ==
    (IF timestamp < 0 THEN "-" \o digits_of(0 - timestamp) ELSE digits_of(timestamp))
        \o ".0"

\* hashlib.md5((message + str(timestamp)).encode()).hexdigest(): a digest is
\* represented by the text it is the digest of, the message followed by the
\* timestamp as str writes it.
message_hash_of(message, timestamp) == [md5_of |-> message \o float_str(timestamp)]

\* lines 181-211: the ConversationTurn built by store_conversation_turn.
new_turn(user_id, message, response, timestamp, context_summary) ==
    LET importance_score == importance_score_of(message, response)
    IN  [ user_id          |-> user_id,
          message          |-> message,
          response         |-> response,
          timestamp        |-> timestamp,
          message_hash     |-> message_hash_of(message, timestamp),
          context_summary  |-> context_summary,
          importance_score |-> importance_score,
          topic_tags       |-> topic_tags_of(message, response),
          memory_type      |-> memory_type_of(importance_score) ]

\* the row the INSERT adds (topic_tags is stored as JSON text of the list).
row_of(turn, id) == [id |-> id] @@ turn

\* the columns of a row that make up the turn.
turn_of(row) == [f \in (DOMAIN row) \ {"id"} |-> row[f]]

\* deque_append dropping the newest entry of a full deque, not the oldest.
deque_append_drops_newest(wm, turn) ==
    IF Len(wm) >= max_working_memory
    THEN Append(SubSeq(wm, 1, Len(wm) - 1), turn) ELSE Append(wm, turn)

\* deque.append on a deque with maxlen: the oldest entry leaves a full deque.
deque_append(wm, turn) ==
    IF Len(wm) >= max_working_memory THEN Append(Tail(wm), turn) ELSE Append(wm, turn)

\* stored writing the turn over the user's newest row, where there is one.
stored_over_own_row(m, turn) ==
    LET own == {i \in 1..Len(m.db_turns) : m.db_turns[i].user_id = turn.user_id}
        newest == CHOOSE i \in own : \A j \in own : j <= i
    IN  IF own = {}
        THEN [ m EXCEPT !.db_turns       = Append(m.db_turns, row_of(turn, m.last_id + 1)),
                        !.last_id        = m.last_id + 1,
                        !.working_memory = deque_append(m.working_memory, turn) ]
        ELSE [ m EXCEPT !.db_turns[newest] = row_of(turn, m.db_turns[newest].id),
                        !.working_memory   = deque_append(m.working_memory, turn) ]

\* the effect of store_conversation_turn on a manager m (a record of its
\* working_memory, db_turns, last_id and user_profiles).
stored(m, turn) ==
    [ m EXCEPT !.db_turns       = Append(m.db_turns, row_of(turn, m.last_id + 1)),
               !.last_id        = m.last_id + 1,
               !.working_memory = deque_append(m.working_memory, turn) ]

\* this manager, as a record.
Manager ==
    [ working_memory |-> working_memory, db_turns |-> db_turns,
      last_id |-> last_id, user_profiles |-> user_profiles ]

\* the main manager takes the state of record m.
Becomes(m) ==
    /\ working_memory' = m.working_memory
    /\ db_turns' = m.db_turns
    /\ last_id' = m.last_id
    /\ user_profiles' = m.user_profiles

\* StoreTurn summarising the working memory as it is after the append.
StoreTurnSummaryAfterAppend(user_id, message, response) ==
    LET unsummarised == new_turn(user_id, message, response, now, "")
    IN  \E context_summary \in
              generate_context_summary(user_id, deque_append(working_memory, unsummarised)) :
            LET turn == new_turn(user_id, message, response, now, context_summary)
            IN  /\ Becomes(stored(Manager, turn))
                /\ now' = now + 1
                /\ ret' = [op |-> "store_conversation_turn", value |-> turn]
                /\ UNCHANGED << requests, max_context_chars, solo >>

\* One call of store_conversation_turn.  The call reads the clock once, at its
\* start; the insert and its commit take time, so the clock has advanced when
\* the call returns.
StoreTurn(user_id, message, response) ==
    \E context_summary \in generate_context_summary(user_id, working_memory) :
        LET turn == new_turn(user_id, message, response, now, context_summary)
        IN  /\ Becomes(stored(Manager, turn))
            /\ now' = now + 1
            /\ ret' = [op |-> "store_conversation_turn", value |-> turn]
            /\ UNCHANGED << requests, max_context_chars, solo >>

\* StoreTurnInsertFails with the turn appended to the working memory before
\* the INSERT is tried.
StoreTurnInsertFailsAfterAppend(user_id, message, response) ==
    /\ \E context_summary \in generate_context_summary(user_id, working_memory) :
          working_memory' =
              deque_append(working_memory,
                           new_turn(user_id, message, response, now, context_summary))
    /\ now' = now + 1
    /\ ret' = [op |-> "raise", from |-> "store_conversation_turn",
               value |-> "sqlite3.Error"]
    /\ UNCHANGED << requests, db_turns, last_id, user_profiles,
                    max_context_chars, solo >>

\* store_conversation_turn where the INSERT or its commit raises
\* sqlite3.Error (lines 213-226 have no handler): the exception leaves the
\* call before the append and the return, and no row is committed.
StoreTurnInsertFails(user_id, message, response) ==
    /\ now' = now + 1
    /\ ret' = [op |-> "raise", from |-> "store_conversation_turn",
               value |-> "sqlite3.Error"]
    /\ UNCHANGED << requests, working_memory, db_turns, last_id, user_profiles,
                    max_context_chars, solo >>

(***************************************************************************)
(* Statistics and the integration layer.                                   *)
(***************************************************************************)
\* the memory types in the order GROUP BY memory_type yields its groups
memory_types == << "ephemeral", "long_term", "working" >>

RECURSIVE SumOfScores(_)
SumOfScores(rows) ==
    IF rows = <<>> THEN 0
    ELSE Head(rows).importance_score + SumOfScores(Tail(rows))

\* get_conversation_stats. average_importance is AVG(importance_score) of
\* the first group, given as the sum and the count it is the quotient of
\* (the code returns the int 0 where the user has no row).
get_conversation_stats(wm, db, user_id) ==
    LET mine    == SelectSeq(db, LAMBDA row : row.user_id = user_id)
        group(t) == SelectSeq(mine, LAMBDA row : row.memory_type = t)
        present == SelectSeq(memory_types, LAMBDA t : group(t) # <<>>)
    IN  [ total_conversations |-> Len(mine),
          memory_distribution |->
              [t \in { present[i] : i \in 1..Len(present) } |-> Len(group(t))],
          average_importance  |->
              IF present # <<>>
              THEN [sum |-> SumOfScores(group(present[1])),
                    count |-> Len(group(present[1]))]
              ELSE [sum |-> 0, count |-> 1],
          working_memory_size |-> Len(wm) ]

GetConversationStats(user_id) ==
    /\ ret' = [op |-> "get_conversation_stats", user_id |-> user_id,
               value |-> get_conversation_stats(working_memory, db_turns, user_id)]
    /\ UNCHANGED << requests, working_memory, db_turns, last_id, user_profiles, now,
                    max_context_chars, solo >>

\* ContextManagerIntegration.process_ai_interaction: the turn is stored, the
\* statistics are read and the dict is returned.
ProcessAiInteraction(user_id, user_message, ai_response) ==
    \E context_summary \in generate_context_summary(user_id, working_memory) :
        LET turn  == new_turn(user_id, user_message, ai_response, now, context_summary)
            after == stored(Manager, turn)
        IN  /\ Becomes(after)
            /\ now' = now + 1
            /\ ret' = [op |-> "process_ai_interaction",
                       value |-> [ conversation_stored |-> TRUE,
                                   importance_score    |-> turn.importance_score,
                                   memory_type         |-> turn.memory_type,
                                   topic_tags          |-> turn.topic_tags,
                                   context_summary     |-> turn.context_summary,
                                   stats |-> get_conversation_stats(
                                                 after.working_memory, after.db_turns,
                                                 user_id) ]]
            /\ UNCHANGED << requests, max_context_chars, solo >>

\* process_ai_interaction where the INSERT of store_conversation_turn
\* raises: lines 479-491 have no handler either, the caller gets the
\* exception and no dict.
ProcessAiInteractionInsertFails(user_id, user_message, ai_response) ==
    /\ now' = now + 1
    /\ ret' = [op |-> "raise", from |-> "process_ai_interaction",
               value |-> "sqlite3.Error"]
    /\ UNCHANGED << requests, working_memory, db_turns, last_id, user_profiles,
                    max_context_chars, solo >>

(***************************************************************************)
(* Preferences.                                                            *)
(***************************************************************************)
\* with_preferences keeping the stored items whose keys are not given anew.
with_preferences_merged(m, user_id, preferences) ==
    LET old  == IF m.user_profiles[user_id] = NoProfile THEN <<>>
                ELSE m.user_profiles[user_id]
        keys == {preferences[i].key : i \in 1..Len(preferences)}
    IN  [ m EXCEPT !.user_profiles =
            [m.user_profiles EXCEPT
                ![user_id] = SelectSeq(old, LAMBDA item : item.key \notin keys)
                             \o preferences] ]

\* INSERT OR REPLACE INTO user_profiles: json.dumps keeps the dict's items
\* and their order, json.loads returns them.
with_preferences(m, user_id, preferences) ==
    [ m EXCEPT !.user_profiles = [m.user_profiles EXCEPT ![user_id] = preferences] ]

UpdateUserPreferences(user_id, preferences) ==
    /\ Becomes(with_preferences(Manager, user_id, preferences))
    /\ ret' = [op |-> "update_user_preferences", user_id |-> user_id,
               preferences |-> preferences, value |-> "None"]
    /\ UNCHANGED << requests, now, max_context_chars, solo >>

GetUserPreferences(user_id) ==
    /\ ret' = [op |-> "get_user_preferences", user_id |-> user_id,
               value |-> get_user_preferences(user_profiles, user_id)]
    /\ UNCHANGED << requests, working_memory, db_turns, last_id, user_profiles, now,
                    max_context_chars, solo >>

\* a call of calculate_importance_score, which reads no state
CalculateImportanceScore(message, response) ==
    /\ ret' = [op |-> "calculate_importance_score", message |-> message,
               response |-> response,
               value |-> importance_score_of(message, response)]
    /\ UNCHANGED << requests, working_memory, db_turns, last_id, user_profiles, now,
                    max_context_chars, solo >>

(***************************************************************************)
(* Reads.                                                                  *)
(***************************************************************************)
\* GetRelevantContext taking the user's turns out of the working memory.
GetRelevantContextConsuming(user_id, current_message) ==
    /\ ret' = [op |-> "get_relevant_context", user_id |-> user_id,
               current_message |-> current_message,
               value |-> get_relevant_context(working_memory, db_turns, user_profiles,
                                              user_id, current_message)]
    /\ working_memory' = SelectSeq(working_memory, LAMBDA turn : turn.user_id # user_id)
    /\ UNCHANGED << requests, db_turns, last_id, user_profiles, now,
                    max_context_chars, solo >>

GetRelevantContext(user_id, current_message) ==
    /\ ret' = [op |-> "get_relevant_context", user_id |-> user_id,
               current_message |-> current_message,
               value |-> get_relevant_context(working_memory, db_turns, user_profiles,
                                              user_id, current_message)]
    /\ UNCHANGED << requests, working_memory, db_turns, last_id, user_profiles, now,
                    max_context_chars, solo >>

PrepareAiContext(user_id, current_message) ==
    /\ ret' = [op |-> "prepare_ai_context", user_id |-> user_id,
               current_message |-> current_message,
               value |-> prepare_ai_context(working_memory, db_turns, user_profiles,
                                            max_context_chars, user_id, current_message)]
    /\ UNCHANGED << requests, working_memory, db_turns, last_id, user_profiles, now,
                    max_context_chars, solo >>

\* the embedding application sets the attribute max_context_chars (the
\* max_chars of the budgeter's contract).
SetMaxContextChars(k) ==
    /\ max_context_chars # k
    /\ max_context_chars' = k
    /\ ret' = [op |-> "set_max_context_chars", value |-> "None"]
    /\ UNCHANGED << requests, working_memory, db_turns, last_id, user_profiles, now, solo >>

(***************************************************************************)
(* Expiry and the passing of time.                                         *)
(***************************************************************************)
\* the rows left by the two DELETE statements of cleanup_old_data, and the
\* rowcount of the last one, which the call returns.
cleaned(db, days_to_keep, time) ==
    LET cutoff_time    == time - days_to_keep * DaySeconds
        after_first    == SelectSeq(db, LAMBDA row : ~expired_ephemeral(row, cutoff_time))
        working_cutoff == time - 7 * DaySeconds
        after_second   == SelectSeq(after_first,
                              LAMBDA row : ~expired_working(row, working_cutoff))
    IN  [ db_turns |-> after_second,
          deleted_count |-> Len(after_first) - Len(after_second) ]

CleanupOldData(days_to_keep) ==
    LET c == cleaned(db_turns, days_to_keep, now)
    IN  /\ db_turns' = c.db_turns
        /\ ret' = [op |-> "cleanup_old_data", days_to_keep |-> days_to_keep,
                   value |-> c.deleted_count]
        /\ UNCHANGED << requests, working_memory, last_id, user_profiles, now,
                        max_context_chars, solo >>

\* time passes between calls.
Tick(seconds) ==
    /\ now' = now + seconds
    /\ ret' = [op |-> "tick", value |-> "None"]
    /\ UNCHANGED << requests, working_memory, db_turns, last_id, user_profiles,
                    max_context_chars, solo >>

\* time passes while a caller keeps the results it has.
TimePasses(seconds) ==
    /\ now' = now + seconds
    /\ UNCHANGED << requests, working_memory, db_turns, last_id, user_profiles,
                    max_context_chars, ret, solo >>

\* what a caller holds of the reads it has made since the last call of an
\* operation that writes: the strings get_ai_context returned, and a mark
\* for each get_context_summary; the last read is included
results_so_far ==
    IF ret.op = "get_ai_context"
    THEN ret.earlier \cup {[op |-> ret.op, user_id |-> ret.user_id,
                            current_message |-> ret.current_message,
                            value |-> ret.value]}
    ELSE IF ret.op = "get_context_summary"
    THEN ret.earlier \cup {[op |-> ret.op, user_id |-> ret.user_id,
                            current_message |-> "", value |-> "ContextSummary"]}
    ELSE {}

\* get_ai_context taking the turns it has read out of the working memory.
GetAiContextConsuming(user_id, current_message) ==
    /\ ret' = [op |-> "get_ai_context", user_id |-> user_id,
               current_message |-> current_message,
               value |-> prepare_ai_context(working_memory, db_turns, user_profiles,
                                            max_context_chars, user_id, current_message),
               earlier |-> results_so_far]
    /\ working_memory' = SelectSeq(working_memory, LAMBDA turn : turn.user_id # user_id)
    /\ UNCHANGED << requests, db_turns, last_id, user_profiles, now,
                    max_context_chars, solo >>

\* ContextManagerIntegration.get_ai_context: the context, returned to a
\* caller that still holds the results of its reads since the last write.
GetAiContext(user_id, current_message) ==
    /\ ret' = [op |-> "get_ai_context", user_id |-> user_id,
               current_message |-> current_message,
               value |-> prepare_ai_context(working_memory, db_turns, user_profiles,
                                            max_context_chars, user_id, current_message),
               earlier |-> results_so_far]
    /\ UNCHANGED << requests, working_memory, db_turns, last_id, user_profiles, now,
                    max_context_chars, solo >>

\* ContextManagerIntegration.get_context_summary: get_relevant_context for
\* the empty message, returned to a caller that still holds the results of
\* its reads since the last write.
GetContextSummary(user_id) ==
    /\ ret' = [op |-> "get_context_summary", user_id |-> user_id,
               value |-> get_relevant_context(working_memory, db_turns, user_profiles,
                                              user_id, ""),
               earlier |-> results_so_far]
    /\ UNCHANGED << requests, working_memory, db_turns, last_id, user_profiles, now,
                    max_context_chars, solo >>

(***************************************************************************)
(* Two runs side by side: the main manager receives every call, the solo   *)
(* manager only the calls made for user Observed, at the same clock.       *)
(***************************************************************************)
TwoRunsStoreTurn(user_id, message, response) ==
    \E context_summary \in generate_context_summary(user_id, working_memory) :
         \E solo_summary \in generate_context_summary(user_id, solo.working_memory) :
            LET turn == new_turn(user_id, message, response, now, context_summary)
                solo_turn == new_turn(user_id, message, response, now, solo_summary)
            IN  /\ Becomes(stored(Manager, turn))
                /\ now' = now + 1
                /\ ret' = [op |-> "store_conversation_turn", value |-> turn]
                /\ solo' = IF user_id = Observed THEN stored(solo, solo_turn) ELSE solo
                /\ UNCHANGED << requests, max_context_chars >>

TwoRunsUpdateUserPreferences(user_id, preferences) ==
    /\ Becomes(with_preferences(Manager, user_id, preferences))
    /\ ret' = [op |-> "update_user_preferences", value |-> "None"]
    /\ solo' = IF user_id = Observed
               THEN with_preferences(solo, user_id, preferences) ELSE solo
    /\ UNCHANGED << requests, now, max_context_chars >>

(***************************************************************************)
(* Concurrent requests.  The application serves requests on threads that   *)
(* share one manager; the code takes no lock of its own.  A call is a      *)
(* sequence of steps, one for each access to shared state: the execute of  *)
(* a statement on the database, the fetch of its rows, a commit, one call  *)
(* of a deque method, one next() of an iterator over the deque.  Steps of  *)
(* different threads interleave in any order.  Each call opens a           *)
(* connection of its own, and sqlite3 locks the database file between the  *)
(* connections: see HoldsReserved, WriteLocked, ReadLocked, PendingLocked. *)
(***************************************************************************)
\* deque.append that gives up the interpreter between the two halves of the
\* call
RunsUnlocked(t) == TRUE

\* thread t can take a step: no other thread is inside deque.append (line
\* 229), which is one call into the interpreter's C code and keeps the
\* interpreter to itself from its first instruction to its last
Runs(t) == \A o \in Threads \ {t} : requests[o].pc # "trim"

\* thread t moves to the locals r, the other threads stay
Moves(t, r) ==
    /\ Runs(t)
    /\ requests' = [requests EXCEPT ![t] = r]

\* the call of thread t ends with an exception of its commit: the
\* connection is left open, with the statement it could not commit
Abandons(t) ==
    /\ Runs(t)
    /\ requests' = [requests EXCEPT ![t] = Idle,
                                    ![Abandoned] = [Idle EXCEPT !.pc = "pending"]]

\* the garbage collector finalises the connection a failed commit left
\* open: what it had written is rolled back and its lock is released
ConnectionCollected ==
    /\ PendingLocked
    /\ Moves(Abandoned, Idle)
    /\ UNCHANGED << working_memory, db_turns, last_id, user_profiles, now,
                    max_context_chars, ret, solo >>

\* line 181: timestamp = time.time().
ThreadStoreBegin(t, user_id, message, response) ==
    /\ requests[t].pc = "idle"
    /\ Moves(t, [Idle EXCEPT !.pc = "snapshot", !.user_id = user_id,
                             !.message = message, !.response = response,
                             !.timestamp = now])
    /\ now' = now + 1
    /\ UNCHANGED << working_memory, db_turns, last_id, user_profiles,
                    max_context_chars, ret, solo >>

\* lines 182-211: the hash, the score and the tags are computed from the
\* arguments, recent_turns = list(self.working_memory) is taken (line 189,
\* one call), it is summarised and the turn is built; the copy is not used
\* after the summary (line 190).
ThreadStoreSnapshot(t) ==
    /\ requests[t].pc = "snapshot"
    /\ \E context_summary \in
              generate_context_summary(requests[t].user_id, working_memory) :
          Moves(t, [requests[t] EXCEPT
                      !.pc = "insert",
                      !.turn = new_turn(requests[t].user_id, requests[t].message,
                                        requests[t].response, requests[t].timestamp,
                                        context_summary)])
    /\ UNCHANGED << working_memory, db_turns, last_id, user_profiles, now,
                    max_context_chars, ret, solo >>

\* lines 213-224: the connection and the INSERT, which takes the write
\* lock; the row is seen by this connection only until the commit.
ThreadStoreInsert(t) ==
    /\ requests[t].pc = "insert"
    /\ ~WriteLocked(t)
    /\ Moves(t, [requests[t] EXCEPT !.pc = "commit"])
    /\ UNCHANGED << working_memory, db_turns, last_id, user_profiles, now,
                    max_context_chars, ret, solo >>

\* lines 213-224 while another connection holds the write lock: the INSERT
\* raises sqlite3.OperationalError, which leaves the call before the
\* append.
ThreadStoreInsertBusy(t) ==
    /\ requests[t].pc = "insert"
    /\ WriteLocked(t)
    /\ ret' = [op |-> "raise", from |-> "store_conversation_turn",
               value |-> "sqlite3.OperationalError"]
    /\ Moves(t, Idle)
    /\ UNCHANGED << working_memory, db_turns, last_id, user_profiles, now,
                    max_context_chars, solo >>

\* lines 225-226: the commit, which writes the row and releases the write
\* lock, and the close.  No other connection has written since the INSERT,
\* so the row has the id that follows the last one.
ThreadStoreCommit(t) ==
    /\ requests[t].pc = "commit"
    /\ ~ReadLocked(t)
    /\ db_turns' = Append(db_turns, row_of(requests[t].turn, last_id + 1))
    /\ last_id' = last_id + 1
    /\ Moves(t, [requests[t] EXCEPT !.pc = "append"])
    /\ UNCHANGED << working_memory, user_profiles, now, max_context_chars, ret, solo >>

\* line 225 while another connection keeps a shared lock for longer than
\* the timeout: the commit raises sqlite3.OperationalError; no row is
\* written, nothing is appended and line 226 does not close the connection.
ThreadStoreCommitBusy(t) ==
    /\ requests[t].pc = "commit"
    /\ ReadLocked(t)
    /\ ret' = [op |-> "raise", from |-> "store_conversation_turn",
               value |-> "sqlite3.OperationalError"]
    /\ Abandons(t)
    /\ UNCHANGED << working_memory, db_turns, last_id, user_profiles, now,
                    max_context_chars, solo >>

\* the threads after thread t has left deque.append and returned: the
\* deque's state counter has changed under every iterator in use
AfterAppendBy(t) ==
    [r \in DOMAIN requests |->
        IF r = t THEN Idle
        ELSE IF requests[r].pc = "iterate" THEN [requests[r] EXCEPT !.mutated = TRUE]
        ELSE requests[r]]

\* ThreadStoreAppend whose turn is not put in the deque when another thread
\* is about to append too.
ThreadStoreAppendLost(t) ==
    /\ requests[t].pc = "append"
    /\ working_memory' =
           IF \E r \in Threads \ {t} : requests[r].pc = "append"
           THEN working_memory
           ELSE Append(working_memory, requests[t].turn)
    /\ Moves(t, [requests[t] EXCEPT !.pc = "trim"])
    /\ UNCHANGED << db_turns, last_id, user_profiles, now, max_context_chars, ret, solo >>

\* line 229, self.working_memory.append(turn), first half: the deque puts
\* the turn at its right end, whatever its length.
ThreadStoreAppend(t) ==
    /\ requests[t].pc = "append"
    /\ working_memory' = Append(working_memory, requests[t].turn)
    /\ Moves(t, [requests[t] EXCEPT !.pc = "trim"])
    /\ UNCHANGED << db_turns, last_id, user_profiles, now, max_context_chars, ret, solo >>

\* lines 229-232, second half of the append: a deque longer than its maxlen
\* (line 42) drops its left end; and the return of the turn.
ThreadStoreTrim(t) ==
    /\ requests[t].pc = "trim"
    /\ working_memory' = IF Len(working_memory) > max_working_memory
                         THEN Tail(working_memory) ELSE working_memory
    /\ requests' = AfterAppendBy(t)
    /\ ret' = [op |-> "store_conversation_turn", value |-> requests[t].turn]
    /\ UNCHANGED << db_turns, last_id, user_profiles, now, max_context_chars, solo >>

\* line 239: the list comprehension creates an iterator over the deque.
ThreadReadBegin(t, user_id, current_message) ==
    /\ requests[t].pc = "idle"
    /\ Moves(t, [Idle EXCEPT !.pc = "iterate", !.user_id = user_id,
                             !.current_message = current_message])
    /\ UNCHANGED << working_memory, db_turns, last_id, user_profiles, now,
                    max_context_chars, ret, solo >>

\* line 239: one next() of the iterator. It raises RuntimeError("deque
\* mutated during iteration") if the deque was appended to since the
\* iterator was created, else it yields the next turn, which the
\* comprehension keeps if it is the user's, or it ends the comprehension.
ThreadReadNext(t) ==
    /\ requests[t].pc = "iterate"
    /\ IF requests[t].mutated
       THEN /\ Moves(t, Idle)
            /\ ret' = [op |-> "raise", from |-> "get_relevant_context",
                       value |-> "RuntimeError"]
       ELSE IF requests[t].index < Len(working_memory)
       THEN LET turn == working_memory[requests[t].index + 1]
            IN  /\ Moves(t, [requests[t] EXCEPT
                                !.index = @ + 1,
                                !.recent_turns =
                                    IF turn.user_id = requests[t].user_id
                                    THEN Append(@, turn) ELSE @])
                /\ UNCHANGED ret
       ELSE /\ Moves(t, [requests[t] EXCEPT !.pc = "select"])
            /\ UNCHANGED ret
    /\ UNCHANGED << working_memory, db_turns, last_id, user_profiles, now,
                    max_context_chars, solo >>

\* lines 242-250: the connection and the execute of the SELECT on
\* conversation_turns, which reads the committed rows; the connection keeps
\* a shared lock if the SELECT has a row to give.
ThreadReadSelect(t) ==
    /\ requests[t].pc = "select"
    /\ ~PendingLocked
    /\ LET rows == important_history(db_turns, requests[t].user_id)
       IN  Moves(t, [requests[t] EXCEPT !.pc = "select_fetch",
                                        !.important_history = rows,
                                        !.shared = rows # <<>>])
    /\ UNCHANGED << working_memory, db_turns, last_id, user_profiles, now,
                    max_context_chars, ret, solo >>

\* lines 242-250 while a connection whose commit failed is still open: the
\* SELECT raises sqlite3.OperationalError.
ThreadReadSelectBusy(t) ==
    /\ requests[t].pc = "select"
    /\ PendingLocked
    /\ ret' = [op |-> "raise", from |-> "get_relevant_context",
               value |-> "sqlite3.OperationalError"]
    /\ Moves(t, Idle)
    /\ UNCHANGED << working_memory, db_turns, last_id, user_profiles, now,
                    max_context_chars, solo >>

\* lines 252-253: important_history = cursor.fetchall() takes the rows and
\* releases the shared lock; the close.
ThreadReadFetch(t) ==
    /\ requests[t].pc = "select_fetch"
    /\ Moves(t, [requests[t] EXCEPT !.pc = "preferences", !.shared = FALSE])
    /\ UNCHANGED << working_memory, db_turns, last_id, user_profiles, now,
                    max_context_chars, ret, solo >>

\* line 268, get_user_preferences, lines 293-295: a new connection and the
\* execute of the SELECT on user_profiles; the connection keeps a shared
\* lock if the user has a profile.
ThreadReadPreferences(t) ==
    /\ requests[t].pc = "preferences"
    /\ ~PendingLocked
    /\ Moves(t, [requests[t] EXCEPT
                   !.pc = "preferences_fetch",
                   !.preferences = get_user_preferences(user_profiles, requests[t].user_id),
                   !.shared = user_profiles[requests[t].user_id] # NoProfile])
    /\ UNCHANGED << working_memory, db_turns, last_id, user_profiles, now,
                    max_context_chars, ret, solo >>

\* lines 293-295 while a connection whose commit failed is still open: the
\* SELECT raises sqlite3.OperationalError, which get_relevant_context does
\* not catch.
ThreadReadPreferencesBusy(t) ==
    /\ requests[t].pc = "preferences"
    /\ PendingLocked
    /\ ret' = [op |-> "raise", from |-> "get_relevant_context",
               value |-> "sqlite3.OperationalError"]
    /\ Moves(t, Idle)
    /\ UNCHANGED << working_memory, db_turns, last_id, user_profiles, now,
                    max_context_chars, solo >>

\* lines 296-305 and 255-289: cursor.fetchone() takes the profile and
\* releases the shared lock, and the ContextSummary is built from the turns
\* the comprehension kept, the rows the first SELECT fetched and the
\* preferences, and returned.
ThreadReadReturn(t) ==
    /\ requests[t].pc = "preferences_fetch"
    /\ ret' = [op |-> "get_relevant_context", user_id |-> requests[t].user_id,
               current_message |-> requests[t].current_message,
               value |-> context_summary_of(
                             requests[t].recent_turns, requests[t].important_history,
                             requests[t].preferences, requests[t].current_message)]
    /\ Moves(t, Idle)
    /\ UNCHANGED << working_memory, db_turns, last_id, user_profiles, now,
                    max_context_chars, solo >>

\* lines 309-314 of update_user_preferences: the connection and the INSERT
\* OR REPLACE, which takes the write lock; the profile is seen by this
\* connection only until the commit.
ThreadUpdatePreferences(t, user_id, preferences) ==
    /\ requests[t].pc = "idle"
    /\ ~WriteLocked(t)
    /\ Moves(t, [Idle EXCEPT !.pc = "update_commit", !.user_id = user_id,
                             !.preferences = preferences])
    /\ UNCHANGED << working_memory, db_turns, last_id, user_profiles, now,
                    max_context_chars, ret, solo >>

\* lines 309-314 while another connection holds the write lock: the INSERT
\* OR REPLACE raises sqlite3.OperationalError.
ThreadUpdatePreferencesBusy(t, user_id, preferences) ==
    /\ requests[t].pc = "idle"
    /\ WriteLocked(t)
    /\ ret' = [op |-> "raise", from |-> "update_user_preferences",
               value |-> "sqlite3.OperationalError"]
    /\ Moves(t, Idle)
    /\ UNCHANGED << working_memory, db_turns, last_id, user_profiles, now,
                    max_context_chars, solo >>

\* lines 315-316: the commit, which writes the profile and releases the
\* write lock, and the close.
ThreadUpdateCommit(t) ==
    /\ requests[t].pc = "update_commit"
    /\ ~ReadLocked(t)
    /\ Becomes(with_preferences(Manager, requests[t].user_id, requests[t].preferences))
    /\ ret' = [op |-> "update_user_preferences", user_id |-> requests[t].user_id,
               preferences |-> requests[t].preferences, value |-> "None"]
    /\ Moves(t, Idle)
    /\ UNCHANGED << now, max_context_chars, solo >>

\* line 315 while another connection keeps a shared lock for longer than
\* the timeout: the commit raises sqlite3.OperationalError, the profile is
\* not written and line 316 does not close the connection.
ThreadUpdateCommitBusy(t) ==
    /\ requests[t].pc = "update_commit"
    /\ ReadLocked(t)
    /\ ret' = [op |-> "raise", from |-> "update_user_preferences",
               value |-> "sqlite3.OperationalError"]
    /\ Abandons(t)
    /\ UNCHANGED << working_memory, db_turns, last_id, user_profiles, now,
                    max_context_chars, solo >>

\* lines 422-435: the connection and the execute of the first SELECT of
\* get_conversation_stats; the connection keeps a shared lock if the user
\* has a row.
ThreadStatsGroups(t, user_id) ==
    /\ requests[t].pc = "idle"
    /\ ~PendingLocked
    /\ LET stats == get_conversation_stats(working_memory, db_turns, user_id)
       IN  Moves(t, [Idle EXCEPT !.pc = "stats_groups_fetch", !.user_id = user_id,
                                 !.stats = stats,
                                 !.shared = stats.total_conversations > 0])
    /\ UNCHANGED << working_memory, db_turns, last_id, user_profiles, now,
                    max_context_chars, ret, solo >>

\* lines 422-435 while a connection whose commit failed is still open: the
\* SELECT raises sqlite3.OperationalError.
ThreadStatsGroupsBusy(t, user_id) ==
    /\ requests[t].pc = "idle"
    /\ PendingLocked
    /\ ret' = [op |-> "raise", from |-> "get_conversation_stats",
               value |-> "sqlite3.OperationalError"]
    /\ Moves(t, Idle)
    /\ UNCHANGED << working_memory, db_turns, last_id, user_profiles, now,
                    max_context_chars, solo >>

\* line 437: memory_stats = cursor.fetchall() takes the groups and releases
\* the shared lock.
ThreadStatsGroupsFetch(t) ==
    /\ requests[t].pc = "stats_groups_fetch"
    /\ Moves(t, [requests[t] EXCEPT !.pc = "stats_total", !.shared = FALSE])
    /\ UNCHANGED << working_memory, db_turns, last_id, user_profiles, now,
                    max_context_chars, ret, solo >>

\* lines 439-441: the execute of the second SELECT, of the user's number of
\* rows, on the same connection; it has one row to give, so the connection
\* keeps a shared lock.
ThreadStatsTotal(t) ==
    /\ requests[t].pc = "stats_total"
    /\ ~PendingLocked
    /\ Moves(t, [requests[t] EXCEPT
                   !.pc = "stats_total_fetch",
                   !.stats.total_conversations =
                       get_conversation_stats(working_memory, db_turns,
                                              requests[t].user_id).total_conversations,
                   !.shared = TRUE])
    /\ UNCHANGED << working_memory, db_turns, last_id, user_profiles, now,
                    max_context_chars, ret, solo >>

\* lines 439-441 while a connection whose commit failed is still open: the
\* second SELECT raises sqlite3.OperationalError.
ThreadStatsTotalBusy(t) ==
    /\ requests[t].pc = "stats_total"
    /\ PendingLocked
    /\ ret' = [op |-> "raise", from |-> "get_conversation_stats",
               value |-> "sqlite3.OperationalError"]
    /\ Moves(t, Idle)
    /\ UNCHANGED << working_memory, db_turns, last_id, user_profiles, now,
                    max_context_chars, solo >>

\* lines 443-444: total_conversations = cursor.fetchone()[0] takes the
\* count and releases the shared lock; the close.
ThreadStatsTotalFetch(t) ==
    /\ requests[t].pc = "stats_total_fetch"
    /\ Moves(t, [requests[t] EXCEPT !.pc = "stats_return", !.shared = FALSE])
    /\ UNCHANGED << working_memory, db_turns, last_id, user_profiles, now,
                    max_context_chars, ret, solo >>

\* lines 445-450: len(self.working_memory) is read and the dict returned.
ThreadStatsReturn(t) ==
    /\ requests[t].pc = "stats_return"
    /\ ret' = [op |-> "get_conversation_stats", user_id |-> requests[t].user_id,
               value |-> [requests[t].stats EXCEPT
                             !.working_memory_size = Len(working_memory)]]
    /\ Moves(t, Idle)
    /\ UNCHANGED << working_memory, db_turns, last_id, user_profiles, now,
                    max_context_chars, solo >>

\* line 395: cutoff_time = time.time() - (days_to_keep * 24 * 3600).
ThreadCleanupBegin(t, days_to_keep) ==
    /\ requests[t].pc = "idle"
    /\ Moves(t, [Idle EXCEPT !.pc = "cleanup_ephemeral", !.days_to_keep = days_to_keep,
                             !.cutoff_time = now - days_to_keep * DaySeconds])
    /\ UNCHANGED << working_memory, db_turns, last_id, user_profiles, now,
                    max_context_chars, ret, solo >>

\* lines 397-404: the connection and the first DELETE, which takes the
\* write lock; the rows it leaves are seen by this connection only.
ThreadCleanupEphemeral(t) ==
    /\ requests[t].pc = "cleanup_ephemeral"
    /\ ~WriteLocked(t)
    /\ Moves(t, [requests[t] EXCEPT
                   !.pc = "cleanup_cutoff",
                   !.uncommitted =
                       SelectSeq(db_turns,
                           LAMBDA row : ~expired_ephemeral(row, requests[t].cutoff_time))])
    /\ UNCHANGED << working_memory, db_turns, last_id, user_profiles, now,
                    max_context_chars, ret, solo >>

\* lines 397-404 while another connection holds the write lock: the DELETE
\* raises sqlite3.OperationalError.
ThreadCleanupBusy(t) ==
    /\ requests[t].pc = "cleanup_ephemeral"
    /\ WriteLocked(t)
    /\ ret' = [op |-> "raise", from |-> "cleanup_old_data",
               value |-> "sqlite3.OperationalError"]
    /\ Moves(t, Idle)
    /\ UNCHANGED << working_memory, db_turns, last_id, user_profiles, now,
                    max_context_chars, solo >>

\* line 407: working_cutoff = time.time() - (7 * 24 * 3600).
ThreadCleanupCutoff(t) ==
    /\ requests[t].pc = "cleanup_cutoff"
    /\ Moves(t, [requests[t] EXCEPT !.pc = "cleanup_working",
                                    !.working_cutoff = now - 7 * DaySeconds])
    /\ UNCHANGED << working_memory, db_turns, last_id, user_profiles, now,
                    max_context_chars, ret, solo >>

\* the rows the connection of thread t sees after its second DELETE (lines
\* 408-411)
after_second_delete(t) ==
    SelectSeq(requests[t].uncommitted,
              LAMBDA row : ~expired_working(row, requests[t].working_cutoff))

\* lines 408-418: the second DELETE, the commit of both, which writes the
\* file and releases the write lock, and the return of the rowcount of the
\* second.
ThreadCleanupCommit(t) ==
    /\ requests[t].pc = "cleanup_working"
    /\ ~ReadLocked(t)
    /\ db_turns' = after_second_delete(t)
    /\ ret' = [op |-> "cleanup_old_data",
               days_to_keep |-> requests[t].days_to_keep,
               value |-> Len(requests[t].uncommitted) - Len(after_second_delete(t))]
    /\ Moves(t, Idle)
    /\ UNCHANGED << working_memory, last_id, user_profiles, now, max_context_chars, solo >>

\* lines 408-413 while another connection keeps a shared lock for longer
\* than the timeout: the commit raises sqlite3.OperationalError, no row is
\* deleted and the connection is not closed.
ThreadCleanupCommitBusy(t) ==
    /\ requests[t].pc = "cleanup_working"
    /\ ReadLocked(t)
    /\ ret' = [op |-> "raise", from |-> "cleanup_old_data",
               value |-> "sqlite3.OperationalError"]
    /\ Abandons(t)
    /\ UNCHANGED << working_memory, db_turns, last_id, user_profiles, now,
                    max_context_chars, solo >>

(***************************************************************************)
(* Bounds of the model.                                                    *)
(***************************************************************************)
\* turns stored in a run of Spec
MaxTurns == 2

\* turns stored in a run of SpecExpiry
MaxTurnsExpiry == 2

\* turns stored in a run of SpecTwoRuns: more than the working memory holds
MaxTurnsLong == 11

\* a budget smaller than every part of a context
SmallBudget == 10

\* a budget that holds a goal and a topic, and no more
MidBudget == 40

\* the clock stops advancing once it has passed this many days
MaxClockDays == 3

\* the number of turns stored in runs of SpecScorer
MaxTurnsScorer == 1

\* the number of turns stored in runs of SpecFacts
MaxTurnsFacts == 6

\* the number of turns stored in runs of SpecGoal
MaxTurnsGoal == 3

\* the number of turns stored in runs of SpecSummary
MaxTurnsSummary == 5

\* the number of turns stored in runs of SpecReads, and the days on its clock
MaxTurnsReads == 2

MaxClockReads == 2

\* the number of turns stored in runs of SpecFailure, and the number of its
\* store calls, failed ones included
MaxTurnsFailure == 2

MaxCallsFailure == 3

\* the number of turns stored in runs of SpecWriters and of SpecReaders
MaxTurnsWriters == 11

\* the stores the first thread has begun when the second thread starts, in
\* runs of SpecWriters
SoloTurnsWriters == 3

MaxTurnsReaders == 2

\* the days the clock can pass in a run of SpecReaders
MaxClockReaders == 1

\* the number of turns stored in a run of SpecLifecycle
MaxTurnsLifecycle == 2

Budgets == {SmallBudget, MidBudget, DefaultMaxContextChars}

\* the time between calls: two days, a second short of 29 days (a call of
\* store_conversation_turn takes the second), 400 days
TickSeconds == {2 * DaySeconds, 29 * DaySeconds - 1, 400 * DaySeconds}

\* the values of days_to_keep
DaysToKeep == {29, 30, 31}

(***************************************************************************)
(* Specifications.                                                         *)
(***************************************************************************)
Init ==
    /\ working_memory = <<>>
    /\ db_turns = <<>>
    /\ last_id = 0
    /\ user_profiles = [u \in Users |-> NoProfile]
    /\ now = 0
    /\ max_context_chars = DefaultMaxContextChars
    /\ ret = [op |-> "init", value |-> "None"]
    /\ solo = [ working_memory |-> <<>>, db_turns |-> <<>>, last_id |-> 0,
                user_profiles |-> [u \in Users |-> NoProfile] ]
    /\ requests = [c \in Connections |-> Idle]

\* Spec: turns, preferences and the budget are set, and contexts are asked for.
Next ==
    \/ \E u \in Users, x \in {XFact, XSecret, XCode} :
          last_id < MaxTurns /\ StoreTurn(u, x.message, x.response)
    \/ \E u \in Users, p \in {PrefsShort, PrefsLong} : UpdateUserPreferences(u, p)
    \/ \E k \in Budgets : SetMaxContextChars(k)
    \/ \E u \in Users, q \in Queries : PrepareAiContext(u, q)

Spec == Init /\ [][Next]_vars

\* SpecExpiry: turns of every class are stored, time passes, the expiry job runs.
NextExpiry ==
    \/ \E u \in Users, x \in {XChat, XBoundary6, XCode, XBoundary8, XFact} :
          last_id < MaxTurnsExpiry /\ StoreTurn(u, x.message, x.response)
    \/ \E t \in TickSeconds : now < MaxClockDays * DaySeconds /\ Tick(t)
    \/ \E d \in DaysToKeep : CleanupOldData(d)

SpecExpiry == Init /\ [][NextExpiry]_vars

\* SpecTwoRuns: a long run of two users, with the run of Observed alone beside it.
NextTwoRuns ==
    \/ \E c \in {<<Observed, XFactCode>>, <<"bob", XSecret>>} :
          last_id < MaxTurnsLong /\ TwoRunsStoreTurn(c[1], c[2].message, c[2].response)
    \/ \E u \in Users : TwoRunsUpdateUserPreferences(u, PrefsShort)
    \/ \E q \in {QNone, QAll} : GetRelevantContext(Observed, q)

SpecTwoRuns == Init /\ [][NextTwoRuns]_vars

\* The scorer on its inputs, and turns stored with the extreme scores.
NextScorer ==
    \/ \E x \in ScoreInputs : CalculateImportanceScore(x.message, x.response)
    \/ \E x \in ScoreExtremes :
          last_id < MaxTurnsScorer /\ StoreTurn(Observed, x.message, x.response)

SpecScorer == Init /\ [][NextScorer]_vars

\* One user's turns of several scores and facts, a turn of the other user,
\* and contexts for messages with neither a goal nor a topic.
NextFacts ==
    \/ \E x \in {XFact, XAdvice, XSecret, XShortFact} :
          last_id < MaxTurnsFacts /\ StoreTurn(Observed, x.message, x.response)
    \/ \E u \in Users \ {Observed} :
          last_id < MaxTurnsFacts /\ StoreTurn(u, XFact.message, XFact.response)
    \/ \E q \in FactQueries : PrepareAiContext(Observed, q)

SpecFacts == Init /\ [][NextFacts]_vars

\* Turns with and without the programming tag of both users, and contexts
\* for messages with and without goal keywords.
NextGoal ==
    \/ \E u \in Users, x \in {XCode, XChat} :
          last_id < MaxTurnsGoal /\ StoreTurn(u, x.message, x.response)
    \/ \E u \in Users, q \in GoalQueries : PrepareAiContext(u, q)

SpecGoal == Init /\ [][NextGoal]_vars

\* One user's turns with the tags programming, security and none, each
\* stored with the summary of the working memory before it.
NextSummary ==
    \E x \in {XCode, XSecret, XChat} :
        last_id < MaxTurnsSummary /\ StoreTurn(Observed, x.message, x.response)

SpecSummary == Init /\ [][NextSummary]_vars

\* Writes, and between them contexts and context summaries read again and
\* again while time passes.
NextReads ==
    \/ \E u \in Users, x \in {XFact, XCode} :
          last_id < MaxTurnsReads /\ StoreTurn(u, x.message, x.response)
    \/ \E u \in Users : UpdateUserPreferences(u, PrefsShort)
    \/ now < MaxClockReads * DaySeconds /\ TimePasses(2 * DaySeconds)
    \/ \E u \in Users, q \in {QAll, QNone} : GetAiContext(u, q)
    \/ \E u \in Users : GetContextSummary(u)

SpecReads == Init /\ [][NextReads]_vars

\* Turns stored directly and through the integration layer, over a store
\* whose INSERT can fail.
NextFailure ==
    \/ \E u \in Users, x \in {XFact, XCode, XChat} :
          last_id < MaxTurnsFailure /\ StoreTurn(u, x.message, x.response)
    \/ \E u \in Users, x \in {XFact, XCode, XChat} :
          now < MaxCallsFailure /\ StoreTurnInsertFails(u, x.message, x.response)
    \/ \E u \in Users, x \in {XFact, XCode, XChat} :
          last_id < MaxTurnsFailure /\ ProcessAiInteraction(u, x.message, x.response)
    \/ \E u \in Users, x \in {XFact, XCode, XChat} :
          now < MaxCallsFailure
              /\ ProcessAiInteractionInsertFails(u, x.message, x.response)
    \/ \E u \in Users : GetConversationStats(u)

SpecFailure == Init /\ [][NextFailure]_vars

\* Two threads that store turns at the same time, past the capacity of the
\* working memory: the second thread serves its first request when the
\* first has begun SoloTurnsWriters stores.  No thread reads, so no commit
\* finds a shared lock.
NextWriters ==
    \/ \E t \in Threads :
          now < MaxTurnsWriters
          /\ (t = FirstThread \/ now >= SoloTurnsWriters)
          /\ ThreadStoreBegin(t, Observed, XChat.message, XChat.response)
    \/ \E t \in Threads : ThreadStoreSnapshot(t)
    \/ \E t \in Threads : ThreadStoreInsert(t)
    \/ \E t \in Threads : ThreadStoreInsertBusy(t)
    \/ \E t \in Threads : ThreadStoreCommit(t)
    \/ \E t \in Threads : ThreadStoreAppend(t)
    \/ \E t \in Threads : ThreadStoreTrim(t)

SpecWriters == Init /\ [][NextWriters]_vars

\* Threads that store turns, set the preferences, read the context and the
\* statistics and clean up, while time passes.
NextReaders ==
    \/ \E t \in Threads, x \in {XFact, XChat} :
          now < MaxTurnsReaders /\ ThreadStoreBegin(t, Observed, x.message, x.response)
    \/ \E t \in Threads : ThreadStoreSnapshot(t)
    \/ \E t \in Threads : ThreadStoreInsert(t)
    \/ \E t \in Threads : ThreadStoreInsertBusy(t)
    \/ \E t \in Threads : ThreadStoreCommit(t)
    \/ \E t \in Threads : ThreadStoreCommitBusy(t)
    \/ \E t \in Threads : ThreadStoreAppend(t)
    \/ \E t \in Threads : ThreadStoreTrim(t)
    \/ \E t \in Threads : ThreadReadBegin(t, Observed, QNone)
    \/ \E t \in Threads : ThreadReadNext(t)
    \/ \E t \in Threads : ThreadReadSelect(t)
    \/ \E t \in Threads : ThreadReadSelectBusy(t)
    \/ \E t \in Threads : ThreadReadFetch(t)
    \/ \E t \in Threads : ThreadReadPreferences(t)
    \/ \E t \in Threads : ThreadReadPreferencesBusy(t)
    \/ \E t \in Threads : ThreadReadReturn(t)
    \/ \E t \in Threads : ThreadUpdatePreferences(t, Observed, PrefsShort)
    \/ \E t \in Threads : ThreadUpdatePreferencesBusy(t, Observed, PrefsShort)
    \/ \E t \in Threads : ThreadUpdateCommit(t)
    \/ \E t \in Threads : ThreadUpdateCommitBusy(t)
    \/ now < MaxClockReaders * DaySeconds /\ TimePasses(400 * DaySeconds)
    \/ \E t \in Threads : ThreadCleanupBegin(t, 30)
    \/ \E t \in Threads : ThreadCleanupEphemeral(t)
    \/ \E t \in Threads : ThreadCleanupBusy(t)
    \/ \E t \in Threads : ThreadCleanupCutoff(t)
    \/ \E t \in Threads : ThreadCleanupCommit(t)
    \/ \E t \in Threads : ThreadCleanupCommitBusy(t)
    \/ \E t \in Threads : ThreadStatsGroups(t, Observed)
    \/ \E t \in Threads : ThreadStatsGroupsBusy(t, Observed)
    \/ \E t \in Threads : ThreadStatsGroupsFetch(t)
    \/ \E t \in Threads : ThreadStatsTotal(t)
    \/ \E t \in Threads : ThreadStatsTotalBusy(t)
    \/ \E t \in Threads : ThreadStatsTotalFetch(t)
    \/ \E t \in Threads : ThreadStatsReturn(t)
    \/ ConnectionCollected

SpecReaders == Init /\ [][NextReaders]_vars

\* the maps given to update_user_preferences: the empty one, and two whose
\* keys differ
PreferenceMaps == {<<>>, PrefsShort, PrefsTwo}

\* Every operation of the manager, called one at a time: turns of the three
\* classes are stored, preferences are set and read, contexts and
\* statistics are asked for, time passes and the expiry job runs.
NextLifecycle ==
    \/ \E u \in Users, x \in {XChat, XCode, XFact} :
          last_id < MaxTurnsLifecycle /\ StoreTurn(u, x.message, x.response)
    \/ \E u \in Users, p \in PreferenceMaps : UpdateUserPreferences(u, p)
    \/ \E u \in Users : GetUserPreferences(u)
    \/ GetRelevantContext(Observed, QAll)
    \/ PrepareAiContext(Observed, QAll)
    \/ GetConversationStats(Observed)
    \/ \E t \in TickSeconds : now < MaxClockDays * DaySeconds /\ Tick(t)
    \/ \E d \in DaysToKeep : CleanupOldData(d)

SpecLifecycle == Init /\ [][NextLifecycle]_vars

(***************************************************************************)
(* Properties of the context budgeter (checked under Spec).                *)
(***************************************************************************)
IsContext == ret.op = "prepare_ai_context"

\* the ContextSummary and the parts behind the context in ret.
RetSummary ==
    get_relevant_context(working_memory, db_turns, user_profiles,
                         ret.user_id, ret.current_message)

RetParts == context_parts(RetSummary, ret.current_message)

\* the four parts by priority, each "" where it is not included.
GoalPart ==
    IF RetSummary.conversation_goal # "general_conversation"
    THEN "Goal: " \o RetSummary.conversation_goal ELSE ""

TopicPart ==
    IF RetSummary.current_topic # "general"
    THEN "Topic: " \o RetSummary.current_topic ELSE ""

FactsPart ==
    LET facts == relevant_facts(RetSummary.key_facts, ret.current_message)
    IN  IF facts # <<>> THEN "Context: " \o Join(Take(facts, 2), "; ") ELSE ""

PrefsPart ==
    LET prefs == relevant_prefs(RetSummary.user_preferences, ret.current_message)
    IN  IF prefs # <<>> THEN "Preferences: " \o Join(Take(prefs, 2), "; ") ELSE ""

NonEmpty(parts) == SelectSeq(parts, LAMBDA part : part # "")

\* the included parts in priority order, joined.
AllJoined == Join(NonEmpty(<<GoalPart, TopicPart, FactsPart, PrefsPart>>), " | ")

GoalTopicJoined == Join(NonEmpty(<<GoalPart, TopicPart>>), " | ")

\* the included part of highest priority ("" if no part is included).
HighestPriorityPart ==
    LET parts == NonEmpty(<<GoalPart, TopicPart, FactsPart, PrefsPart>>)
    IN  IF parts # <<>> THEN parts[1] ELSE ""

Overflows == Len(AllJoined) > max_context_chars

\* C1: budget law. The string prepare_ai_context returns is never longer
\* than max_context_chars, whatever the store, the working memory, the
\* preferences and the message are.
C1_BudgetLaw == IsContext => Len(ret.value) <= max_context_chars

\* C1's case: goal, topic, facts and preferences are all included, each is
\* longer than the budget, and the context fills the budget exactly.
C1_Witness ==
    /\ IsContext
    /\ GoalPart # "" /\ TopicPart # "" /\ FactsPart # "" /\ PrefsPart # ""
    /\ \A part \in {GoalPart, TopicPart, FactsPart, PrefsPart} :
          Len(part) > max_context_chars
    /\ Len(ret.value) = max_context_chars

\* C2 as claimed, where a goal and a topic are both included: when all the
\* parts overflow the budget and goal and topic together fit, the context
\* holds both the goal and the topic, and neither a facts part nor a
\* preferences part.
C2_PriorityDropAsClaimed ==
    (/\ IsContext /\ Overflows /\ Len(GoalTopicJoined) <= max_context_chars
     /\ GoalPart # "" /\ TopicPart # "")
    => /\ Contains(ret.value, GoalPart)
       /\ Contains(ret.value, TopicPart)
       /\ ~Contains(ret.value, "Context: ")
       /\ ~Contains(ret.value, "Preferences: ")

\* C2 amended: when all the parts overflow the budget, goal and topic together
\* fit and one of them is included, the context is exactly the one of highest
\* priority: the goal part where a goal is included (the topic is dropped with
\* the facts and the preferences), the topic part where only a topic is. It
\* holds neither a facts part nor a preferences part.
C2_PriorityDrop ==
    (/\ IsContext /\ Overflows /\ Len(GoalTopicJoined) <= max_context_chars
     /\ GoalTopicJoined # "")
    => /\ ret.value = (IF GoalPart # "" THEN GoalPart ELSE TopicPart)
       /\ (GoalPart # "" => ~Contains(ret.value, "Topic: "))
       /\ ~Contains(ret.value, "Context: ")
       /\ ~Contains(ret.value, "Preferences: ")

\* C2's case at the default budget of 2000: goal, topic, facts and a long
\* preference overflow it, and the context is the goal alone.
C2_Witness ==
    /\ IsContext
    /\ max_context_chars = DefaultMaxContextChars
    /\ Overflows
    /\ GoalPart # "" /\ TopicPart # "" /\ FactsPart # "" /\ PrefsPart # ""
    /\ ret.value = GoalPart

\* C3: two-stage truncation. On overflow the context is the first
\* max_context_chars characters of the included part of highest priority
\* (goal, then topic, then facts, then preferences); otherwise it is the
\* included parts joined with " | " in that order.
C3_TwoStageTruncation ==
    IsContext =>
        ret.value = IF Overflows THEN Take(HighestPriorityPart, max_context_chars)
                    ELSE AllJoined

\* C3's case: neither goal nor topic is included, facts and preferences
\* overflow the budget, and the context is the facts part cut short.
C3_Witness ==
    /\ IsContext
    /\ Overflows
    /\ GoalPart = "" /\ TopicPart = "" /\ FactsPart # "" /\ PrefsPart # ""
    /\ ret.value = Take(FactsPart, max_context_chars)
    /\ Len(ret.value) < Len(FactsPart)

\* C3's other case: several parts fit and are joined in priority order.
C3_JoinedCase ==
    /\ IsContext
    /\ ~Overflows
    /\ GoalPart # "" /\ TopicPart # "" /\ FactsPart # "" /\ PrefsPart # ""
    /\ ret.value = GoalPart \o " | " \o TopicPart \o " | " \o FactsPart \o " | " \o PrefsPart

(***************************************************************************)
(* Properties of two users sharing the manager (C4 and C9 are checked      *)
(* under SpecTwoRuns, C5 under Spec).                                      *)
(***************************************************************************)
\* what get_relevant_context returns to Observed in the run with every call
ViewInFullRun(q) ==
    get_relevant_context(working_memory, db_turns, user_profiles, Observed, q)

\* and in the run without the other user's calls
ViewInSoloRun(q) ==
    get_relevant_context(solo.working_memory, solo.db_turns, solo.user_profiles,
                         Observed, q)

\* C4 as claimed: what get_relevant_context returns to a user is the same
\* with and without the other user's store_conversation_turn and
\* update_user_preferences calls.
C4_NonInterferenceAsClaimed ==
    \A q \in {QNone, QAll} : ViewInFullRun(q) = ViewInSoloRun(q)

\* C4 amended: the topic, the key facts and the preferences returned to a
\* user are the same with and without the other user's calls; the recent
\* context and the goal are the same as long as no more than
\* max_working_memory (10) turns have been stored in all, that is until the
\* other user's turns push this user's turns out of the shared working memory.
C4_NonInterference ==
    \A q \in {QNone, QAll} :
        LET full == ViewInFullRun(q)
            alone == ViewInSoloRun(q)
        IN  /\ full.current_topic = alone.current_topic
            /\ full.key_facts = alone.key_facts
            /\ full.user_preferences = alone.user_preferences
            /\ last_id <= max_working_memory =>
                  /\ full.recent_context = alone.recent_context
                  /\ full.conversation_goal = alone.conversation_goal

\* C4's case: ten turns of both users are stored, the other user has set
\* preferences, and the observed user gets key facts, a recent context and
\* the goal of the working memory, the same in both runs.
C4_Witness ==
    /\ last_id = max_working_memory
    /\ \E i \in 1..Len(db_turns) : db_turns[i].user_id # Observed
    /\ \E u \in Users \ {Observed} : user_profiles[u] # NoProfile
    /\ ViewInFullRun(QNone).key_facts # <<>>
    /\ ViewInFullRun(QNone).recent_context # ""
    /\ ViewInFullRun(QNone).conversation_goal = "programming_assistance"
    /\ ViewInFullRun(QNone) = ViewInSoloRun(QNone)

\* C5: the context_summary of a turn stored for a user is a summary of that
\* user's turns in the working memory alone.
C5_SummaryOfOwnTurns ==
    [][(last_id' # last_id /\ ret'.op = "store_conversation_turn") =>
          ret'.value.context_summary \in
              generate_context_summary(ret'.value.user_id,
                  recent_turns_of(working_memory, ret'.value.user_id))]_vars

\* the turns of the rows of the store, in rowid order
StoredTurns == [i \in 1..Len(db_turns) |-> turn_of(db_turns[i])]

\* C9: the working memory never holds more than max_working_memory (10)
\* turns, and after n calls of store_conversation_turn it holds the last
\* min(n, 10) turns stored, in the order they were stored in.  (No row is
\* deleted under SpecTwoRuns: the store holds every turn, in that order.)
C9_WorkingSetFifo ==
    /\ Len(working_memory) <= max_working_memory
    /\ Len(db_turns) = last_id
    /\ Len(working_memory) = Min(last_id, max_working_memory)
    /\ working_memory = SubSeq(StoredTurns, last_id - Len(working_memory) + 1, last_id)

\* C9's case: eleven turns are stored, and the working memory holds the
\* second to the eleventh.
C9_Witness ==
    /\ last_id = max_working_memory + 1
    /\ Len(working_memory) = max_working_memory
    /\ working_memory[1] = StoredTurns[2]
    /\ working_memory[max_working_memory] = StoredTurns[max_working_memory + 1]
    /\ \A i \in 1..Len(working_memory) : working_memory[i] # StoredTurns[1]

(***************************************************************************)
(* Properties of retention and expiry (checked under SpecExpiry).          *)
(***************************************************************************)
\* the rows of a table of the given memory type
RowsOfType(db, type) == SelectSeq(db, LAMBDA row : row.memory_type = type)

InTable_Row(db, row) == \E i \in 1..Len(db) : db[i] = row

\* a step of cleanup_old_data (every call leaves its name in ret)
CleanupStep == ret'.op = "cleanup_old_data"

\* C6: a long_term row of the store is in the store after every step: no
\* call of store_conversation_turn or cleanup_old_data, with any days_to_keep
\* and at any time, removes it.
C6_LongTermKept ==
    [][\A i \in 1..Len(db_turns) :
          db_turns[i].memory_type = "long_term" => InTable_Row(db_turns', db_turns[i])]_vars

\* C6's case: cleanup_old_data has just run, with a days_to_keep of 30, over
\* a long_term row that is more than 400 days old, and the row is there.
C6_Witness ==
    /\ ret.op = "cleanup_old_data"
    /\ ret.days_to_keep = 30
    /\ \E i \in 1..Len(db_turns) :
          /\ db_turns[i].memory_type = "long_term"
          /\ now - db_turns[i].timestamp > 400 * DaySeconds

\* C7: cleanup_old_data(d) leaves exactly the ephemeral rows whose timestamp
\* is at or after the call time less d days: no older one stays, and each of
\* the others stays.
C7_EphemeralExpiry ==
    [][CleanupStep =>
          RowsOfType(db_turns', "ephemeral") =
              SelectSeq(RowsOfType(db_turns, "ephemeral"),
                  LAMBDA row : row.timestamp >= now - ret'.days_to_keep * DaySeconds)]_vars

\* C7's case: cleanup_old_data(30) has just run; of two ephemeral rows, the
\* one more than 31 days old is gone and the one 29 days old is there.
C7_Witness ==
    /\ ret.op = "cleanup_old_data"
    /\ ret.days_to_keep = 30
    /\ last_id = 2
    /\ Len(db_turns) = 1
    /\ db_turns[1].id = 2
    /\ db_turns[1].memory_type = "ephemeral"
    /\ now - db_turns[1].timestamp = 29 * DaySeconds
    /\ now > 31 * DaySeconds

\* C8: cleanup_old_data removes a working row exactly when the row is more
\* than 7 days old and its score is below 6, whatever days_to_keep is.
C8_WorkingExpiry ==
    [][CleanupStep =>
          \A i \in 1..Len(db_turns) :
              db_turns[i].memory_type = "working" =>
                  (InTable_Row(db_turns', db_turns[i])
                   <=> ~(/\ db_turns[i].timestamp < now - 7 * DaySeconds
                         /\ db_turns[i].importance_score < 6))]_vars

\* C8's case: cleanup_old_data has just run, with a days_to_keep of 29, over
\* working rows more than 29 days old, one of them with the lowest score a
\* working row has, and they are there.
C8_Witness ==
    /\ ret.op = "cleanup_old_data"
    /\ ret.days_to_keep = 29
    /\ \E i \in 1..Len(db_turns) :
          /\ db_turns[i].memory_type = "working"
          /\ db_turns[i].importance_score = 7
          /\ db_turns[i].timestamp < now - 29 * DaySeconds
    /\ \E i \in 1..Len(db_turns) :
          /\ db_turns[i].memory_type = "working"
          /\ db_turns[i].importance_score = 8
          /\ db_turns[i].timestamp < now - 29 * DaySeconds

\* the class the thresholds give a score
ClassMatchesScore(turn) ==
    /\ turn.memory_type \in {"ephemeral", "working", "long_term"}
    /\ turn.memory_type = "long_term" <=> turn.importance_score > 8
    /\ turn.memory_type = "working" <=>
          (turn.importance_score > 6 /\ turn.importance_score <= 8)
    /\ turn.memory_type = "ephemeral" <=> turn.importance_score <= 6

\* C10: every row of the store and every turn of the working memory is
\* long_term iff its score is above 8, working iff its score is above 6 and
\* at most 8, ephemeral iff its score is at most 6; and no step changes the
\* class or the score of a row or of a turn of the working memory.
C10_Classification ==
    /\ [](/\ \A i \in 1..Len(db_turns) : ClassMatchesScore(db_turns[i])
          /\ \A i \in 1..Len(working_memory) : ClassMatchesScore(working_memory[i]))
    /\ [][/\ \A i \in 1..Len(db_turns), j \in 1..Len(db_turns') :
                db_turns[i].id = db_turns'[j].id =>
                    /\ db_turns[i].memory_type = db_turns'[j].memory_type
                    /\ db_turns[i].importance_score = db_turns'[j].importance_score
          /\ \A i \in 1..Len(working_memory), j \in 1..Len(working_memory') :
                working_memory[i].message_hash = working_memory'[j].message_hash =>
                    /\ working_memory[i].memory_type = working_memory'[j].memory_type
                    /\ working_memory[i].importance_score =
                           working_memory'[j].importance_score]_vars

\* C10's case: the store holds a row of score 6, which is ephemeral, and a row
\* of score 8, which is working, and so does the working memory.
C10_Witness ==
    /\ \E i \in 1..Len(db_turns) :
          db_turns[i].importance_score = 6 /\ db_turns[i].memory_type = "ephemeral"
    /\ \E i \in 1..Len(db_turns) :
          db_turns[i].importance_score = 8 /\ db_turns[i].memory_type = "working"
    /\ \E i \in 1..Len(working_memory) :
          working_memory[i].importance_score = 6 /\ working_memory[i].memory_type = "ephemeral"
    /\ \E i \in 1..Len(working_memory) :
          working_memory[i].importance_score = 8 /\ working_memory[i].memory_type = "working"

(***************************************************************************)
(* Properties of the scorer (C11 and C12 are checked under SpecScorer).    *)
(***************************************************************************)
IsScore == ret.op = "calculate_importance_score"

\* C11: clamp invariant. calculate_importance_score returns a value from 1
\* to 10 for every message and response, and the importance_score of every
\* stored turn, in the store and in the working memory, is from 1 to 10.
C11_ClampInvariant ==
    /\ IsScore => (1 <= ret.value /\ ret.value <= 10)
    /\ \A i \in 1..Len(db_turns) :
          1 <= db_turns[i].importance_score /\ db_turns[i].importance_score <= 10
    /\ \A i \in 1..Len(working_memory) :
          /\ 1 <= working_memory[i].importance_score
          /\ working_memory[i].importance_score <= 10

\* C11's case: the exchange with all 15 keywords, a question mark and a
\* response of more than 500 characters is scored 10, after a turn of that
\* exchange was stored with score 10.
C11_Witness ==
    /\ IsScore
    /\ ret.message = XEverything.message /\ ret.response = XEverything.response
    /\ Len(ret.response) > 500
    /\ \A i \in 1..Len(important_keywords) :
          Contains(ret.message, important_keywords[i])
    /\ ret.value = 10
    /\ \E i \in 1..Len(db_turns) :
          /\ db_turns[i].message = XEverything.message
          /\ db_turns[i].importance_score = 10

\* the number of keywords of important_keywords that occur in text, each
\* counted once
KeywordsIn(text) ==
    Cardinality({ important_keywords[i] : i \in 1..Len(important_keywords) }
                \cap { k \in { important_keywords[i] : i \in 1..Len(important_keywords) } :
                         Contains(text, k) })

Clamp(x, lo, hi) == IF x < lo THEN lo ELSE IF x > hi THEN hi ELSE x

\* C12: scoring formula. The score is 5, plus the number of keywords in the
\* lowercased message and response, plus 1 for a question mark in the
\* message, plus 1 for a response of more than 500 characters, minus 1 for a
\* message under 20 and a response under 50 characters, clamped to 1..10
\* once, at the end.
C12_ScoringFormula ==
    IsScore =>
        ret.value =
            Clamp(5 + KeywordsIn(Lower(ret.message \o " " \o ret.response))
                    + (IF \E i \in 1..Len(ret.message) : CharAt(ret.message, i) = "?"
                       THEN 1 ELSE 0)
                    + (IF Len(ret.response) > 500 THEN 1 ELSE 0)
                    - (IF Len(ret.message) < 20 /\ Len(ret.response) < 50
                       THEN 1 ELSE 0),
                  1, 10)

\* C12's case: nine keywords in a very short exchange. The sum is 14 before
\* the subtraction and 13 after it, and the score is 10, not 9.
C12_Witness ==
    /\ IsScore
    /\ ret.message = XShortNine.message /\ ret.response = XShortNine.response
    /\ Len(ret.message) < 20 /\ Len(ret.response) < 50
    /\ KeywordsIn(Lower(ret.message \o " " \o ret.response)) = 9
    /\ ret.value = 10

(***************************************************************************)
(* Properties of the key facts (C13 is checked under SpecFacts).           *)
(***************************************************************************)
\* the rows of the user with importance_score > 7, newest first, 5 at most
NewestImportantRows(user_id) ==
    LET mine == SelectSeq(db_turns, LAMBDA row : /\ row.user_id = user_id
                                                 /\ row.importance_score > 7)
        desc == [i \in 1..Len(mine) |-> mine[Len(mine) + 1 - i]]
    IN  SubSeq(desc, 1, Min(5, Len(desc)))

\* the first sentence of a response, of 100 characters at most
FactOf(response) == BeforeFirst(Take(response, 100), ".")

SharesWord(fact, message) == Words(Lower(fact)) \cap Words(Lower(message)) # {}

\* the context for a message with neither goal, topic nor preferences, given
\* the facts eligible for it
ContextOfFacts(eligible) ==
    IF eligible = <<>> THEN ""
    ELSE "Context: " \o Join(SubSeq(eligible, 1, Min(2, Len(eligible))), "; ")

\* C13 as claimed: the facts of the context are the facts of the user's 5
\* newest rows with importance_score > 7 that share a word with the current
\* message, the first 2 of them, newest first.
C13_KeyFactsAsClaimed ==
    (IsContext /\ ret.current_message \in FactQueries) =>
        LET rows  == NewestImportantRows(ret.user_id)
            facts == [i \in 1..Len(rows) |-> FactOf(rows[i].response)]
            eligible == SelectSeq(facts, LAMBDA f : SharesWord(f, ret.current_message))
        IN  ret.value = ContextOfFacts(eligible)

\* C13 amended: of the user's 5 newest rows with importance_score > 7, only
\* those with importance_score > 8 and a first sentence of more than 20
\* characters give a key fact, and only the first 3 of these facts are kept;
\* the kept facts that share a word with the current message are eligible and
\* the first 2 eligible ones, newest first, are in the context.
C13_KeyFacts ==
    (IsContext /\ ret.current_message \in FactQueries) =>
        LET rows  == NewestImportantRows(ret.user_id)
            very  == SelectSeq(rows, LAMBDA row : /\ row.importance_score > 8
                                                  /\ Len(FactOf(row.response)) > 20)
            facts == [i \in 1..Len(very) |-> FactOf(very[i].response)]
            kept  == SubSeq(facts, 1, Min(3, Len(facts)))
            eligible == SelectSeq(kept, LAMBDA f : SharesWord(f, ret.current_message))
        IN  ret.value = ContextOfFacts(eligible)

\* C13's case: the user has five rows or more and the other
\* user has one; the context holds two facts, the newer first, and a newer
\* row of score 8 whose first sentence shares a word with the message gives
\* no fact.
C13_Witness ==
    /\ IsContext /\ ret.user_id = Observed /\ ret.current_message = QProject
    /\ Len(SelectSeq(db_turns, LAMBDA row : row.user_id = Observed)) >= 5
    /\ \E i \in 1..Len(db_turns) : db_turns[i].user_id # Observed
    /\ db_turns[Len(db_turns)].user_id = Observed
    /\ db_turns[Len(db_turns)].importance_score = 8
    /\ SharesWord(FactOf(db_turns[Len(db_turns)].response), QProject)
    /\ ret.value = "Context: " \o FactOf(XFact.response) \o "; " \o FactOf(XFact.response)

(***************************************************************************)
(* Properties of the goal (C14 is checked under SpecGoal).                 *)
(***************************************************************************)
\* the goals in the order they are tried
GoalOrder ==
    << "help_request", "problem_solving", "information_seeking",
       "task_completion", "configuration", "learning" >>

\* the phrases of a goal
PhrasesOf(goal) ==
    LET e == CHOOSE p \in { goal_patterns[i] : i \in 1..Len(goal_patterns) } : p.goal = goal
    IN  { e.keywords[i] : i \in 1..Len(e.keywords) }

\* some phrase of the goal is a substring of the lowercased message
GoalMatches(goal, message) == \E phrase \in PhrasesOf(goal) : Contains(Lower(message), phrase)

\* the turns of the user in the working memory, oldest first
OwnRecentTurns(user_id) == SelectSeq(working_memory, LAMBDA t : t.user_id = user_id)

HasProgrammingTag(turn) ==
    \E i \in 1..Len(turn.topic_tags) : turn.topic_tags[i] \in {"programming", "code"}

\* the goal as the rule gives it
ExpectedGoal(user_id, message) ==
    LET hits == { i \in 1..Len(GoalOrder) : GoalMatches(GoalOrder[i], message) }
        own  == OwnRecentTurns(user_id)
    IN  IF hits # {} THEN GoalOrder[CHOOSE i \in hits : \A j \in hits : i <= j]
        ELSE IF own # <<>> /\ HasProgrammingTag(own[Len(own)])
             THEN "programming_assistance"
             ELSE "general_conversation"

\* C14: goal inference. The goal is the first of help_request,
\* problem_solving, information_seeking, task_completion, configuration,
\* learning with a phrase in the lowercased message; with none it is
\* programming_assistance exactly when the user's own most recent turn in the
\* working memory has the programming (or code) tag, and general_conversation
\* otherwise. The context starts with "Goal: " and the goal unless the goal is
\* general_conversation, and then it has no goal part.
C14_GoalInference ==
    (IsContext /\ ret.current_message \in GoalQueries) =>
        LET goal == ExpectedGoal(ret.user_id, ret.current_message)
        IN  /\ RetSummary.conversation_goal = goal
            /\ goal # "general_conversation" =>
                  /\ Take(ret.value, Len("Goal: " \o goal)) = "Goal: " \o goal
                  /\ (Len(ret.value) > Len("Goal: " \o goal) =>
                         SubSeq(ret.value, Len("Goal: " \o goal) + 1,
                                Len("Goal: " \o goal) + 3) = " | ")
            /\ goal = "general_conversation" => ~Contains(ret.value, "Goal: ")

\* C14's case: a message without goal keywords, from a user whose own last
\* turn has the programming tag, while the last turn of the working memory
\* is another user's turn without it: the goal is programming_assistance.
C14_Witness ==
    /\ IsContext /\ ret.current_message = QNone
    /\ \A goal \in { GoalOrder[i] : i \in 1..Len(GoalOrder) } :
          ~GoalMatches(goal, ret.current_message)
    /\ working_memory # <<>>
    /\ working_memory[Len(working_memory)].user_id # ret.user_id
    /\ ~HasProgrammingTag(working_memory[Len(working_memory)])
    /\ ret.value = "Goal: programming_assistance"

\* C14's other case: a message with phrases of two goals gets the first one.
C14_FirstMatchCase ==
    /\ IsContext
    /\ GoalMatches("help_request", ret.current_message)
    /\ GoalMatches("problem_solving", ret.current_message)
    /\ ret.value = "Goal: help_request"

(***************************************************************************)
(* Properties of the summarizer (C15 is checked under SpecSummary).        *)
(***************************************************************************)
RECURSIVE TagsOfTurns(_)
\* the tags of the turns, in the order of the turns and of each turn's list
TagsOfTurns(turns) ==
    IF turns = <<>> THEN <<>>
    ELSE turns[1].topic_tags \o TagsOfTurns(SubSeq(turns, 2, Len(turns)))

Occurrences(tags, tag) == Cardinality({ i \in 1..Len(tags) : tags[i] = tag })

\* the tag of highest count, the first encountered among those that tie
FirstMostFrequentTag(turns) ==
    LET tags == TagsOfTurns(SubSeq(turns, Max(1, Len(turns) - 2), Len(turns)))
        best == { i \in 1..Len(tags) :
                    \A j \in 1..Len(tags) :
                        Occurrences(tags, tags[j]) <= Occurrences(tags, tags[i]) }
    IN  IF tags = <<>> THEN "general"
        ELSE tags[CHOOSE i \in best : \A j \in best : i <= j]

\* C15: the topic of a summary is the tag of highest count over the last 3
\* turns given, the first encountered where several tie, and "general" where
\* they have no tag: the summary stored with a turn starts with that topic.
C15_FirstEncounteredTopic ==
    [][(/\ last_id' # last_id
        /\ ret'.op = "store_conversation_turn"
        /\ working_memory # <<>>) =>
          LET topic == "Topic: " \o FirstMostFrequentTag(working_memory)
              summary == ret'.value.context_summary
          IN  /\ Take(summary, Len(topic)) = topic
              /\ (Len(summary) > Len(topic) =>
                     SubSeq(summary, Len(topic) + 1, Len(topic) + 3) = " | ")]_vars

(***************************************************************************)
(* Repeated reads (C16 is checked under SpecReads).                        *)
(***************************************************************************)
\* the last call was get_ai_context
IsAiContext == ret.op = "get_ai_context"

\* the reads of the integration layer
IntegrationReads == {"get_ai_context", "get_context_summary"}

(***************************************************************************)
\* C17: store unavailable. A store_conversation_turn or
\* process_ai_interaction call whose INSERT fails does not end by raising:
\* the caller gets the turn's score, tags and memory class with a flag that
\* says the turn was not stored.
C17_StoreFailureReported ==
    /\ ret.op # "raise"
    /\ ret.op = "process_ai_interaction" =>
          (ret.value.conversation_stored <=>
              \E i \in 1..Len(db_turns) :
                  /\ db_turns[i].id = last_id
                  /\ db_turns[i].context_summary = ret.value.context_summary
                  /\ db_turns[i].importance_score = ret.value.importance_score)


(***************************************************************************)
(* Concurrent appends.                                                     *)
(***************************************************************************)
\* the threads whose store has committed its row and not yet appended its
\* turn
Appending == {t \in Threads : requests[t].pc = "append"}

\* the threads that are inside deque.append: the turn is in the deque, and
\* the deque has not yet dropped what exceeds its capacity
Trimming == {t \in Threads : requests[t].pc = "trim"}

\* the number of places of the sequence s that hold x
CountIn(s, x) == Cardinality({i \in 1..Len(s) : s[i] = x})

\* the last n elements of the sequence s
LastOf(s, n) == SubSeq(s, Len(s) - Min(Len(s), n) + 1, Len(s))

\* thread t enters deque.append in this step: its turn is put at the end
PutsBy(t) ==
    /\ t \in Appending
    /\ requests'[t].pc = "trim"
    /\ working_memory' = Append(working_memory, requests[t].turn)

\* thread t leaves deque.append in this step: the deque keeps its last
\* turns, up to its capacity
TrimsBy(t) ==
    /\ t \in Trimming
    /\ requests'[t].pc = "idle"
    /\ working_memory' = LastOf(working_memory, max_working_memory)

(***************************************************************************)
\* C19: a get_relevant_context call that reads the working memory while
\* another thread's store appends to it always completes its reading, and
\* the turns it has read are the user's turns of the buffer at one moment
\* (before the append or after it); the call never fails.
C19_ConcurrentReadSnapshots ==
    [][\A t \in Threads :
          requests[t].pc = "iterate" =>
              /\ requests'[t].pc \in {"iterate", "select"}
              /\ requests'[t].pc = "select" =>
                     requests'[t].recent_turns =
                         recent_turns_of(working_memory, requests[t].user_id)]_vars

(***************************************************************************)
(* Partial writes.                                                         *)
(***************************************************************************)
\* the turn held by a row of conversation_turns
TurnOfRow(row) == [f \in DOMAIN row \ {"id"} |-> row[f]]

\* the turns of the Turn Store
TurnsInStore == {TurnOfRow(db_turns[i]) : i \in 1..Len(db_turns)}

\* every stored turn is in the working memory, but for those evicted by
\* later ones, and every turn of the working memory is stored
VisibleInBoth ==
    /\ Len(working_memory) = Min(Len(db_turns), max_working_memory)
    /\ \A i \in 1..Len(working_memory) : working_memory[i] \in TurnsInStore

\* thread t reads the working memory or the Turn Store in this step: a
\* next() of its iterator, the execute of a SELECT on conversation_turns,
\* or len(self.working_memory)
Observes(t) ==
    \/ /\ requests[t].pc = "iterate"
       /\ requests'[t].pc # requests[t].pc \/ requests'[t].index # requests[t].index
    \/ /\ requests'[t].pc # requests[t].pc
       /\ requests'[t].pc \in {"select_fetch", "stats_groups_fetch", "stats_total_fetch"}
    \/ requests[t].pc = "stats_return" /\ requests'[t].pc = "idle"

\* C20: in no interleaving does a context or statistics request read the
\* Turn Store or the working memory while a turn is in one of them and not
\* in the other because its store is still in progress.
C20_NoPartialWrites ==
    [][\A t \in Threads : Observes(t) => VisibleInBoth]_vars

(***************************************************************************)
(* Timestamps in stored order.                                             *)
(***************************************************************************)
\* the rows of user_id, in rowid order
RowsOfUser(db, user_id) == SelectSeq(db, LAMBDA row : row.user_id = user_id)

\* the timestamps of the rows never decrease
NonDecreasing(rows) ==
    \A i \in 1..(Len(rows) - 1) : rows[i].timestamp <= rows[i + 1].timestamp

\* C21: for each user, the timestamps of the user's turns never decrease in
\* the order in which the Turn Store holds them, whatever the interleaving
\* of the stores.
C21_TimestampOrder ==
    \A u \in Users : NonDecreasing(RowsOfUser(db_turns, u))

(***************************************************************************)
(* Stored turns (checked under SpecLifecycle).                             *)
(***************************************************************************)
\* the rows of db as a set
RowSet(db) == {db[i] : i \in 1..Len(db)}

\* the ids of the rows of db
IdSet(db) == {db[i].id : i \in 1..Len(db)}

\* C22: each store inserts exactly one row, which holds the turn it returns,
\* and no operation changes a field of a row that is in the Turn Store: a
\* row stays as it is, or it is deleted, and only the expiry job deletes.
C22_TurnImmutability ==
    [][/\ ret'.op = "store_conversation_turn" =>
              /\ Len(db_turns') = Len(db_turns) + 1
              /\ \E id \in IdSet(db_turns') \ IdSet(db_turns) :
                     RowSet(db_turns') \ RowSet(db_turns) = {row_of(ret'.value, id)}
       /\ ret'.op # "store_conversation_turn" => RowSet(db_turns') \subseteq RowSet(db_turns)
       /\ \A row \in RowSet(db_turns) :
              \/ row \in RowSet(db_turns')
              \/ ret'.op = "cleanup_old_data" /\ row.id \notin IdSet(db_turns')]_vars

\* the expiry job has deleted one of two stored turns and kept the other
C22_Witness ==
    /\ ret.op = "cleanup_old_data"
    /\ last_id = 2
    /\ Len(db_turns) = 1

(***************************************************************************)
(* Preferences (checked under SpecLifecycle).                              *)
(***************************************************************************)
\* what get_user_preferences returns for user_id in this state
PreferencesOf(user_id) == get_user_preferences(user_profiles, user_id)

\* and in the state after the step
PreferencesAfter(user_id) == get_user_preferences(user_profiles', user_id)

\* C23: get_user_preferences(u) returns the map given to the latest
\* update_user_preferences(u, .), whole and not merged with the one before,
\* and the empty map where there was none; updates for other users, stores
\* and the expiry job do not change it.  Stated step by step: the answer
\* is empty at first, an update for u makes it the map given and leaves the
\* other users' answers, no other operation changes any answer, and a read
\* returns the answer.
C23_LastWriteWins ==
    /\ \A u \in Users : PreferencesOf(u) = <<>>
    /\ [][/\ ret'.op = "update_user_preferences" =>
                /\ PreferencesAfter(ret'.user_id) = ret'.preferences
                /\ \A v \in Users \ {ret'.user_id} :
                       PreferencesAfter(v) = PreferencesOf(v)
          /\ ret'.op # "update_user_preferences" =>
                \A u \in Users : PreferencesAfter(u) = PreferencesOf(u)
          /\ ret'.op = "get_user_preferences" =>
                ret'.value = PreferencesOf(ret'.user_id)]_vars

\* a read returns the one-key map of a user whose map had other keys before
\* or not, while the other user holds the two-key map and turns are stored
C23_Witness ==
    /\ ret.op = "get_user_preferences"
    /\ ret.user_id = Observed
    /\ ret.value = PrefsShort
    /\ PreferencesOf("bob") = PrefsTwo
    /\ db_turns # <<>>

(***************************************************************************)
(* Reads (checked under SpecLifecycle).                                    *)
(***************************************************************************)
\* the operations that only read
ReadOperations ==
    { "get_relevant_context", "prepare_ai_context", "get_user_preferences",
      "get_conversation_stats" }

\* C24: a context, preferences or statistics request leaves the working
\* memory (its turns and their order), the Turn Store and the stored
\* preferences as they were.
C24_ReadsArePure ==
    [][ret'.op \in ReadOperations =>
          /\ working_memory' = working_memory
          /\ db_turns' = db_turns
          /\ \A u \in Users : PreferencesAfter(u) = PreferencesOf(u)]_vars

\* a context was returned for a user who has preferences and whose turn is
\* in the working memory beside another user's
C24_Witness ==
    /\ ret.op = "get_relevant_context"
    /\ Len(working_memory) = 2
    /\ working_memory[1].user_id # working_memory[2].user_id
    /\ Len(db_turns) = 2
    /\ PreferencesOf(ret.user_id) # <<>>

(***************************************************************************)
(* The summary recorded with a turn (checked under SpecLifecycle).         *)
(***************************************************************************)
\* C25: when calls run one at a time, the context_summary recorded with a
\* new turn (in the turn returned, in its row and in the working memory) is
\* the summary of the working memory as it was just before the turn was
\* appended, the new turn not being part of it, and it is the literal "New
\* conversation" when the working memory was empty then.
C25_SnapshotSummary ==
    [][ret'.op = "store_conversation_turn" =>
          LET turn == ret'.value
          IN  /\ turn.context_summary \in
                     generate_context_summary(turn.user_id, working_memory)
              /\ working_memory = <<>> => turn.context_summary = "New conversation"
              /\ db_turns'[Len(db_turns')].context_summary = turn.context_summary
              /\ working_memory'[Len(working_memory')] = turn]_vars

\* a turn was stored after another, with a summary that is not the summary
\* of the working memory that holds the turn itself
C25_Witness ==
    /\ ret.op = "store_conversation_turn"
    /\ Len(working_memory) = 2
    /\ ret.value.context_summary # "New conversation"
    /\ ret.value.context_summary \notin
           generate_context_summary(ret.value.user_id, working_memory)

(***************************************************************************)
(* Working turns and the expiry job (checked under SpecExpiry).            *)
(***************************************************************************)
\* C26: a turn is classified working only with a score above 6.0, so no
\* stored working turn meets the condition of the second DELETE (score below
\* 6.0): every working turn of the Turn Store is still there after any
\* step, the expiry job included.
C26_WorkingNeverExpired ==
    /\ [](\A row \in RowSet(db_turns) :
             row.memory_type = "working" => row.importance_score > 6)
    /\ [][\A row \in RowSet(db_turns) :
             row.memory_type = "working" => row \in RowSet(db_turns')]_vars

\* the expiry job has run over a working turn older than seven days, which
\* is still stored
C26_Witness ==
    /\ ret.op = "cleanup_old_data"
    /\ \E row \in RowSet(db_turns) :
          /\ row.memory_type = "working"
          /\ row.timestamp < now - 7 * DaySeconds

(***************************************************************************)
(* The count returned by the expiry job (checked under SpecExpiry).        *)
(***************************************************************************)
\* C27: cleanup_old_data returns the number of turns the call removed from
\* the Turn Store, the ephemeral ones and the working ones together.
C27_CleanupCount ==
    [][ret'.op = "cleanup_old_data" =>
          ret'.value = Len(db_turns) - Len(db_turns')]_vars

(***************************************************************************)
(* The working memory and the Turn Store (checked under SpecExpiry).       *)
(***************************************************************************)
\* C28: in every reachable state, after any stores and any runs of the
\* expiry job, every turn held in the working memory is also in the Turn
\* Store.
C28_WorkingSetInStore ==
    \A i \in 1..Len(working_memory) : working_memory[i] \in TurnsInStore

(***************************************************************************)
(* A failed INSERT (checked under SpecFailure).                            *)
(***************************************************************************)
\* C29: when the INSERT of store_conversation_turn fails, the turn is not
\* appended to the working memory and the Turn Store is unchanged: both are
\* exactly as they were before the call.
C29_FailedStoreChangesNothing ==
    [][ret'.op = "raise" =>
          /\ working_memory' = working_memory
          /\ db_turns' = db_turns
          /\ last_id' = last_id]_vars

\* a store has failed after another had succeeded
C29_Witness ==
    /\ ret.op = "raise"
    /\ ret.from = "store_conversation_turn"
    /\ Len(db_turns) = 1
    /\ Len(working_memory) = 1

(***************************************************************************)
(* The order of the working memory and of the Turn Store (checked under    *)
(* SpecWriters).                                                           *)
(***************************************************************************)
\* the place in the Turn Store of the row that holds the turn (0 if none)
PlaceInStore(turn) ==
    IF turn \in TurnsInStore
    THEN CHOOSE k \in 1..Len(db_turns) : TurnOfRow(db_turns[k]) = turn
    ELSE 0

\* any two turns of the working memory are in the order of their commits
SameOrderAsStore ==
    \A i, j \in 1..Len(working_memory) :
        i < j => PlaceInStore(working_memory[i]) < PlaceInStore(working_memory[j])

\* the working memory holds the turns committed last, up to its capacity
HoldsLatestCommitted ==
    {working_memory[i] : i \in 1..Len(working_memory)} =
        {TurnOfRow(db_turns[k]) :
            k \in (Len(db_turns) - Min(Len(db_turns), max_working_memory) + 1)..Len(db_turns)}

\* C30: for any interleaving of concurrent stores, two turns of the working
\* memory are in the order in which they were committed to the Turn Store,
\* and the working memory always holds the most recently committed turns,
\* up to its capacity.
C30_OrderAgreement == SameOrderAsStore /\ HoldsLatestCommitted

=========================================================================
